---------------------------- MODULE Spec2Model ----------------------------
(***************************************************************************)
(* catchapage: the capture orchestration engine.                           *)
(*                                                                         *)
(*   PageCaptureRunner.run  -> LinkCaptureTask.run -> VariantCaptureTask   *)
(*                                                                         *)
(* The program is single-threaded JavaScript: a step of the model is one   *)
(* turn of the event loop, i.e. the resolution of one awaited external     *)
(* call (Playwright, the filesystem) together with everything the          *)
(* continuations do until each of them is suspended at its next external   *)
(* call.  Promise reactions are microtasks and run inside that turn.       *)
(*                                                                         *)
(* The repository holds two revisions of the capture classes:              *)
(*   "logged"  src/unnamed/part_001 and part_003 (config object, logging)  *)
(*   "plain"   src/src/variantCaptureTask.ts     (named config imports)    *)
(* The variable rev selects the revision a behaviour follows.              *)
(***************************************************************************)
EXTENDS Integers, Sequences, FiniteSets, TLC

(***************************************************************************)
(* Bounds of the model.                                                    *)
(***************************************************************************)
MaxUrls == 2

InputUrls == <<"a", "b", "a", "b">>
Urls == {InputUrls[j] : j \in 1..Len(InputUrls)}
Revisions == {"logged", "plain"}
KindOrder == <<"Desktop", "Tablet", "Mobile">>
Kinds == {KindOrder[j] : j \in 1..Len(KindOrder)}

(***************************************************************************)
(* Errors.  An Error value is identified by what its message is built      *)
(* from: the kind of failure, the URL and a number (HTTP status, timeout   *)
(* in ms, or strategy index).                                              *)
(***************************************************************************)
Error(kind, url, n) == [kind |-> kind, url |-> url, n |-> n]
NoError == Error("none", "", 0)

\* An Error whose message is the text s; also that message itself.
Text(s) == Error("text", s, 0)

\* A thrown value that is not an Error and whose String() is s.
Value(s) == Error("value", s, 0)

\* Variant of the message conversion that takes an empty text for no error.
ErrorMessageIfAny(e) ==
    IF e.url = "" /\ e.kind \in {"text", "value"} THEN NoError
    ELSE IF e.kind = "value" THEN Text(e.url)
    ELSE e

\* error instanceof Error ? error.message : String(error)
\* NoError stands for an absent (undefined) error; an empty message is the
\* text "", which is not absent.
ErrorMessage(e) ==
    IF e.kind = "value" THEN Text(e.url) ELSE e

(***************************************************************************)
(* CaptureOutcome                                                          *)
(***************************************************************************)
Ok(url, folder) ==
    [url |-> url, folder |-> folder, success |-> TRUE, error |-> NoError]

Fail(url, folder, e) ==
    [url |-> url, folder |-> folder, success |-> FALSE, error |-> ErrorMessage(e)]

NoOutcome == [url |-> "", folder |-> <<>>, success |-> FALSE, error |-> NoError]

(***************************************************************************)
(* Results of the external calls.                                          *)
(***************************************************************************)
Returned == [threw |-> FALSE, hasResponse |-> FALSE, status |-> 0]
Threw == [threw |-> TRUE, hasResponse |-> FALSE, status |-> 0]
Response(s) == [threw |-> FALSE, hasResponse |-> TRUE, status |-> s]

Statuses == {200, 400, 404}

PlainResults == {Returned, Threw}
GotoResults == {Returned, Threw} \cup {Response(s) : s \in Statuses}

\* The calls made on the browser, a context or a page; Bun.write is not one.
PlaywrightCalls ==
    {"newContext", "newPage", "goto", "idleWait", "stabilize", "content",
     "screenshot", "pageContent", "pageClose", "pageCloseFinally", "contextClose"}

\* What the call a variant is suspended at may resolve to.  Once the browser
\* has been closed, every call on it, its contexts and its pages throws.
Results(pc, alive) ==
    IF pc \in PlaywrightCalls /\ ~alive THEN {Threw}
    ELSE IF pc = "goto" THEN GotoResults
    ELSE PlainResults

\* What page.isClosed() may answer in the turn that resolves call pc: only the
\* logged revision asks, and only when its inner finally block is entered
\* with the page not known to be closed.
IsClosedAnswers(pc, revision) ==
    IF revision = "logged" /\ pc \in {"goto", "idleWait", "stabilize", "content",
                                      "screenshot", "pageContent", "pageClose"}
    THEN BOOLEAN ELSE {FALSE}

(***************************************************************************)
(* VariantCaptureTask                                                      *)
(***************************************************************************)
NavigationStrategies == <<"networkidle", "domcontentloaded">>

Idle == [pc |-> "idle", strat |-> 0, lastError |-> NoError, err |-> NoError,
         png |-> 0, html |-> 0, log |-> <<>>]

Settled(v) == v.pc \in {"done", "failed"}
InFlight(v) == v.pc \notin {"idle", "done", "failed"}

\* run() called: it runs up to its first await, browser.newContext(...).
Started == [Idle EXCEPT !.pc = "newContext"]

Entry(call, arg, res) == [call |-> call, arg |-> arg, res |-> res]

\* The call resolved in this step, added to the audit of the variant.
Logged(v, r) ==
    [v EXCEPT !.log = Append(@, Entry(v.pc,
        IF v.pc = "goto" THEN NavigationStrategies[v.strat] ELSE "", r))]

\* Variant of validateNavigationResponse that lets status 400 pass.
ValidateAbove400(url, r) ==
    IF ~r.hasResponse THEN NoError
    ELSE IF r.status > 400 THEN Error("http", url, r.status)
    ELSE NoError

\* validateNavigationResponse: the error it throws, NoError when it returns.
ValidateNavigationResponse(url, r) ==
    IF ~r.hasResponse THEN NoError
    ELSE IF r.status >= 400 THEN Error("http", url, r.status)
    ELSE NoError

\* The handler of run(): which call follows navigation, the idle wait and
\* the stabilization wait (a wait configured <= 0 is skipped; the plain
\* revision issues the idle wait unconditionally).
AfterStabilization(c) ==
    IF c.cfg.content <= 0 THEN "screenshot" ELSE "content"

AfterIdleWait(c) ==
    IF c.cfg.stab <= 0 THEN AfterStabilization(c) ELSE "stabilize"

AfterNavigation(c) ==
    IF c.rev = "logged" /\ ~(c.cfg.idle > 0) THEN AfterIdleWait(c) ELSE "idleWait"

\* Variant of the inner finally block that leaves the page alone.
InnerFinallySkipsPage(c, v, e, closed) ==
    [v EXCEPT !.pc = "contextClose", !.err = e]

\* Variant of the inner finally block that drops the pending error.
InnerFinallySwallows(c, v, e, closed) ==
    LET v1 == IF c.rev = "logged"
              THEN [v EXCEPT !.log = Append(@, Entry("isClosed",
                        IF closed THEN "true" ELSE "false", Returned))]
              ELSE v
    IN  IF c.rev = "logged" /\ closed
        THEN [v1 EXCEPT !.pc = "contextClose", !.err = NoError]
        ELSE [v1 EXCEPT !.pc = "pageCloseFinally", !.err = NoError]

\* withContext, inner finally, entered with error e pending (NoError: none).
\* logged: page.close() only if !page.isClosed(); plain: page.close() always.
InnerFinally(c, v, e, closed) ==
    LET v1 == IF c.rev = "logged"
              THEN [v EXCEPT !.log = Append(@, Entry("isClosed",
                        IF closed THEN "true" ELSE "false", Returned))]
              ELSE v
    IN  IF c.rev = "logged" /\ closed
        THEN [v1 EXCEPT !.pc = "contextClose", !.err = e]
        ELSE [v1 EXCEPT !.pc = "pageCloseFinally", !.err = e]

\* The handler passed to withContext threw e.
HandlerThrew(c, v, e, gone) == InnerFinally(c, v, e, gone)

\* Variant of the return path that goes straight to context.close().
HandlerReturnedNoClose(c, v) ==
    [v EXCEPT !.pc = "contextClose", !.err = NoError]

\* The handler returned the page content.
HandlerReturned(c, v) ==
    IF c.rev = "logged"
    THEN [v EXCEPT !.pc = "pageClose"]
    ELSE [v EXCEPT !.pc = "pageCloseFinally", !.err = NoError]

\* Variant of the errors in which waitForMeaningfulContent swallows the
\* timeout of its waitForFunction.
CallErrorSwallowsContentTimeout(c, call, strat, r) ==
    CASE call = "goto" ->
           IF r.threw THEN Error("goto", c.url, strat)
           ELSE ValidateNavigationResponse(c.url, r)
      [] ~r.threw -> NoError
      [] call = "idleWait" -> Error("waitForTimeout", c.url, c.cfg.idle)
      [] call = "stabilize" -> Error("waitForTimeout", c.url, c.cfg.stab)
      [] call = "content" -> NoError
      [] call = "pageCloseFinally" -> Error("pageClose", c.url, 0)
      [] OTHER -> Error(call, c.url, 0)

\* The error the call `call` raises in the task when it resolves to r
\* (NoError: none).  page.goto: what it threw, or what
\* validateNavigationResponse throws on its response;
\* waitForMeaningfulContent replaces whatever waitForFunction threw.
CallError(c, call, strat, r) ==
    CASE call = "goto" ->
           IF r.threw THEN Error("goto", c.url, strat)
           ELSE ValidateNavigationResponse(c.url, r)
      [] ~r.threw -> NoError
      [] call = "idleWait" -> Error("waitForTimeout", c.url, c.cfg.idle)
      [] call = "stabilize" -> Error("waitForTimeout", c.url, c.cfg.stab)
      [] call = "content" -> Error("contentNotReady", c.url, c.cfg.content)
      [] call = "pageCloseFinally" -> Error("pageClose", c.url, 0)
      [] OTHER -> Error(call, c.url, 0)

\* Variant of the end of navigateWithFallback that throws the error of the
\* primary attempt.
ThrowFirstError(url, lastError) == Error("goto", url, 1)

\* The end of navigateWithFallback: lastError if it is an Error, else a new
\* Error 'Navigation failed for <url>.'.
ThrowLastError(url, lastError) ==
    IF lastError.kind # "value" THEN lastError ELSE Error("navigation", url, 0)

\* Variant of navigateWithFallback that tries every strategy, whatever the
\* earlier ones did.
NavigateAlwaysBoth(c, v, e, gone) ==
    IF v.strat < Len(NavigationStrategies)
    THEN [v EXCEPT !.strat = @ + 1, !.lastError = e]
    ELSE IF e = NoError
    THEN [v EXCEPT !.pc = AfterNavigation(c), !.strat = 0, !.lastError = NoError]
    ELSE HandlerThrew(c, [v EXCEPT !.strat = 0, !.lastError = NoError], e, gone)

\* Variant of navigateWithFallback that throws the error of the primary
\* attempt although the fallback attempt succeeded.
NavigateSurfacesPrimary(c, v, e, gone) ==
    IF e = NoError
    THEN IF v.strat = 1
         THEN [v EXCEPT !.pc = AfterNavigation(c), !.strat = 0, !.lastError = NoError]
         ELSE HandlerThrew(c, [v EXCEPT !.strat = 0, !.lastError = NoError],
                           v.lastError, gone)
    ELSE IF v.strat < Len(NavigationStrategies)
    THEN [v EXCEPT !.strat = @ + 1, !.lastError = e]
    ELSE HandlerThrew(c, [v EXCEPT !.strat = 0, !.lastError = NoError], e, gone)

\* Variant of navigateWithFallback that returns although every strategy failed.
NavigateIgnoresFailure(c, v, e, gone) ==
    IF e = NoError \/ v.strat >= Len(NavigationStrategies)
    THEN [v EXCEPT !.pc = AfterNavigation(c), !.strat = 0, !.lastError = NoError]
    ELSE [v EXCEPT !.strat = @ + 1, !.lastError = e]

\* navigateWithFallback, after the attempt of strategy v.strat raised e.
NavigateWithFallback(c, v, e, gone) ==
    IF e = NoError
    THEN [v EXCEPT !.pc = AfterNavigation(c), !.strat = 0, !.lastError = NoError]
    ELSE IF v.strat < Len(NavigationStrategies)
    THEN [v EXCEPT !.strat = @ + 1, !.lastError = e]
    ELSE \* lastError is e
         HandlerThrew(c, [v EXCEPT !.strat = 0, !.lastError = NoError],
                      ThrowLastError(c.url, e), gone)

\* One turn of a variant task: the call it is suspended at resolves to r;
\* gone is what page.isClosed() answers if this turn asks.
\* c = [url, rev, cfg]
VStep(c, v0, r, gone) ==
    LET v == Logged(v0, r)
        e == CallError(c, v0.pc, v0.strat, r)
    IN
    CASE v.pc = "newContext" ->
           IF e # NoError THEN [v EXCEPT !.pc = "failed", !.err = e]
           ELSE [v EXCEPT !.pc = "newPage"]
      [] v.pc = "newPage" ->
           IF e # NoError THEN [v EXCEPT !.pc = "contextClose", !.err = e]
           ELSE [v EXCEPT !.pc = "goto", !.strat = 1]
      [] v.pc = "goto" -> NavigateWithFallback(c, v, e, gone)
      [] v.pc = "idleWait" ->
           IF e # NoError THEN HandlerThrew(c, v, e, gone)
           ELSE [v EXCEPT !.pc = AfterIdleWait(c)]
      [] v.pc = "stabilize" ->
           IF e # NoError THEN HandlerThrew(c, v, e, gone)
           ELSE [v EXCEPT !.pc = AfterStabilization(c)]
      [] v.pc = "content" ->
           IF e # NoError THEN HandlerThrew(c, v, e, gone)
           ELSE [v EXCEPT !.pc = "screenshot"]
      [] v.pc = "screenshot" ->
           IF e # NoError THEN HandlerThrew(c, v, e, gone)
           ELSE [v EXCEPT !.pc = "pageContent", !.png = @ + 1]
      [] v.pc = "pageContent" ->
           IF e # NoError THEN HandlerThrew(c, v, e, gone)
           ELSE HandlerReturned(c, v)
      [] v.pc = "pageClose" ->
           \* logged revision only: the explicit close after the handler
           IF e # NoError THEN InnerFinally(c, v, e, gone)
           ELSE InnerFinally(c, v, NoError, TRUE)
      [] v.pc = "pageCloseFinally" ->
           \* an error thrown in the finally block replaces the pending one
           IF e # NoError THEN [v EXCEPT !.pc = "contextClose", !.err = e]
           ELSE [v EXCEPT !.pc = "contextClose"]
      [] v.pc = "contextClose" ->
           IF e # NoError THEN [v EXCEPT !.pc = "failed", !.err = e]
           ELSE IF v.err # NoError THEN [v EXCEPT !.pc = "failed"]
           ELSE [v EXCEPT !.pc = "write"]
      [] v.pc = "write" ->
           IF e # NoError THEN [v EXCEPT !.pc = "failed", !.err = e]
           ELSE [v EXCEPT !.pc = "done", !.html = @ + 1]
      [] OTHER -> v0

\* Without the audit a variant keeps no record of the calls it made, nor,
\* once its promise has been consumed, of the error it was rejected with.
Audit(keep, v) ==
    IF keep THEN v
    ELSE [v EXCEPT !.log = <<>>, !.err = IF Settled(v) THEN NoError ELSE @]

(***************************************************************************)
(* State                                                                   *)
(***************************************************************************)
VARIABLES
    urls,       \* PageCaptureRunner.urls
    parallel,   \* config.PARALLEL_CAPTURE_ENABLED
    rev,        \* the revision of the capture classes
    cfg,        \* POST_NAVIGATION_IDLE_MS, CAPTURE_STABILIZATION_DELAY_MS, CONTENT_READY_TIMEOUT_MS
    runPc,      \* where PageCaptureRunner.run() is
    runErr,     \* the error run() is about to raise / has raised
    browser,    \* "none", "open", "closed"
    usedNames,  \* PageCaptureRunner.usedNames
    folders,    \* the link directories prepared so far, by link
    lk,         \* per link: where LinkCaptureTask.run() is, and its outcome
    vt,         \* per link and device kind: the VariantCaptureTask
    results,    \* the outcomes execute() has collected; run()'s results
    exitCode,   \* process.exitCode
    calls,      \* how often run() launched, closed the browser, notified observers,
                \* how often LinkCaptureTask.run() was called, by link, how often
                \* console.warn was called, by device kind, and what the
                \* DeviceContextFactory was asked to build and returned
    descriptor, \* config.DESKTOP_/TABLET_/MOBILE_DEVICE_DESCRIPTOR, by device kind
    factory,    \* DeviceContextFactory: desktop/tablet/mobileWarningEmitted
    logger,     \* FileLogger: logFilePath, pendingLines, what the log files hold
    linksFile,  \* the links file main() reads
    runs,       \* the runs of the tool against one output root
    dom,        \* the document the content-readiness predicate is evaluated in
    device,     \* a device preset, a fallback and overrides, and the profile built
    chromium,   \* config.CHROMIUM_HOST_RESOLVER_RULES, _USE_CUSTOM_DNS, _DNS_SERVERS,
                \* and the options of the launches made
    nav,        \* a navigateWithFallback call: what its attempts meet, where it is
    hung        \* the external call that never completes, if there is one

vars == <<urls, parallel, rev, cfg, runPc, runErr, browser, usedNames, folders,
          lk, vt, results, exitCode, calls, descriptor, factory, logger,
          linksFile, runs, dom, device, chromium, nav, hung>>

\* What the runner and its tasks neither read again nor write: the
\* configuration of the device descriptors, the links file, the logger and
\* the other runs.
aside == <<descriptor, logger, linksFile, runs, dom, device, chromium, nav, hung>>

Links == 1..Len(urls)

Ctx(i) == [url |-> urls[i], rev |-> rev, cfg |-> cfg]

Alive == browser # "closed"

\* The links whose LinkCaptureTask.run() has not been called yet.
Queued == {j \in Links : lk[j].pc = "queued"}

(***************************************************************************)
(* DeviceContextFactory.  f is the part of the state a build call writes:  *)
(* the factory's flags (f.factory) and the calls made (f.calls).           *)
(***************************************************************************)
\* The descriptor names a configuration may hold: unset or empty, blank,
\* a registered name, a registered name with blanks around it, and a name
\* that is not registered.
DescriptorNames == {"", " ", "Pixel 5", " Pixel 5 ", "Nokia"}

\* descriptorName?.trim()
Trimmed(name) ==
    CASE name = " " -> ""
      [] name = " Pixel 5 " -> "Pixel 5"
      [] OTHER -> name

\* The registry of named device presets (playwright's devices).
Devices == {"Pixel 5"}

\* Variant of emitWarning that does not look at the flag of the kind.
EmitWarningEveryTime(f, kind) ==
    [f EXCEPT !.calls.warn[kind] = @ + 1, !.factory[kind] = TRUE]

\* Variant of emitWarning that flips the flag of the kind.
EmitWarningToggles(f, kind) ==
    IF ~f.factory[kind]
    THEN [f EXCEPT !.calls.warn[kind] = @ + 1, !.factory[kind] = TRUE]
    ELSE [f EXCEPT !.factory[kind] = FALSE]

\* emitWarning(type, descriptorName)
EmitWarning(f, kind) ==
    IF ~f.factory[kind]
    THEN [f EXCEPT !.calls.warn[kind] = @ + 1, !.factory[kind] = TRUE]
    ELSE f

\* resolveDescriptor(descriptorName, type): the preset found, or "null".
ResolveDescriptor(f, name, kind) ==
    LET trimmed == Trimmed(name) IN
    IF trimmed = "" THEN [f |-> f, descriptor |-> "null"]
    ELSE IF trimmed \notin Devices
    THEN [f |-> EmitWarning(f, kind), descriptor |-> "null"]
    ELSE [f |-> f, descriptor |-> trimmed]

\* The explicit profile of a kind, built from config.<KIND>_VIEWPORT etc.
Fallback(kind) == [preset |-> "none", rest |-> kind]

\* normalizeDescriptor: the fields of the preset, the fallback's for the
\* fields the preset leaves out.
NormalizeDescriptor(d, fallback) == [preset |-> d, rest |-> fallback.rest]

\* mergeOptions: the kind's locale, timezone and colour scheme over the base.
MergeOptions(baseOptions, kind) == [base |-> baseOptions, overrides |-> kind]

\* build<Kind>ContextOptions() -> buildDeviceProfile
BuildDeviceProfile(f, kind) ==
    LET r == ResolveDescriptor(f, descriptor[kind], kind)
        baseOptions == IF r.descriptor # "null"
                       THEN NormalizeDescriptor(r.descriptor, Fallback(kind))
                       ELSE Fallback(kind)
    IN  [f |-> r.f, options |-> MergeOptions(baseOptions, kind)]

\* createVariantTasks(): the options of the three variants are built in
\* the order Desktop, Tablet, Mobile.
RECURSIVE CreateVariantTasks(_, _)
CreateVariantTasks(f, j) ==
    IF j > Len(KindOrder) THEN f
    ELSE CreateVariantTasks(BuildDeviceProfile(f, KindOrder[j]).f, j + 1)

(***************************************************************************)
(* LinkCaptureTask.run and PageCaptureRunner.execute: what happens, within *)
(* one turn, once a variant or a link has settled.  w is the part of the   *)
(* state these continuations write; pf is the set of links for which       *)
(* createVariantTasks throws (a device profile cannot be built).           *)
(***************************************************************************)
World == [vt |-> vt, lk |-> lk, results |-> results, runPc |-> runPc, calls |-> calls,
          factory |-> factory]

\* Variant of the collection that stores outcomes in their order of arrival.
CollectByArrival(res, i, o) ==
    IF parallel
    THEN LET j == CHOOSE m \in 1..Len(res) :
                      /\ res[m] = NoOutcome
                      /\ \A n \in 1..(m - 1) : res[n] # NoOutcome
         IN  [res EXCEPT ![j] = o]
    ELSE Append(res, o)

\* execute(): the outcome o of task i joins the outcomes collected so far.
\* Promise.all stores it at the index of the task; the sequential loop
\* pushes it.
Collect(res, i, o) ==
    IF parallel THEN [res EXCEPT ![i] = o] ELSE Append(res, o)

\* Variant of the end of run() without the finally block.
FinishExecuteNoClose(w) ==
    [w EXCEPT !.runPc = "returned"]

\* execute() returned; run()'s finally block calls browser.close().
FinishExecute(w) ==
    [w EXCEPT !.runPc = "closing", !.calls.close = @ + 1]

\* Variant of LinkCaptureTask.run() without the catch block.
NotCaught(url, folder, e) == [pc |-> "raised", outcome |-> NoOutcome]

\* LinkCaptureTask.run(): its try block returned / its catch block caught e.
Returns(url, folder) == [pc |-> "settled", outcome |-> Ok(url, folder)]
Caught(url, folder, e) == [pc |-> "settled", outcome |-> Fail(url, folder, e)]

RECURSIVE StartLink(_, _, _), SettleLink(_, _, _, _)

\* Variant of execute() whose sequential loop stops at the first failure.
SettleLinkStopsOnFailure(w, i, l, pf) ==
    LET w1 == [w EXCEPT !.lk[i] = l,
                        !.results = Collect(@, i, l.outcome)]
    IN  IF parallel
        THEN IF \A j \in Links : w1.lk[j].pc = "settled"
             THEN FinishExecute(w1) ELSE w1
        ELSE IF i < Len(urls) /\ l.outcome.success THEN StartLink(w1, i + 1, pf)
             ELSE FinishExecute(w1)

\* LinkCaptureTask.run() of link i ended as l.
SettleLink(w, i, l, pf) ==
    LET w1 == [w EXCEPT !.lk[i] = l,
                        !.results = Collect(@, i, l.outcome)]
    IN  IF parallel
        THEN IF \A j \in Links : w1.lk[j].pc = "settled"
             THEN FinishExecute(w1) ELSE w1
        ELSE IF i < Len(urls) THEN StartLink(w1, i + 1, pf)
             ELSE FinishExecute(w1)

\* Variant of LinkCaptureTask.run() that starts its three variants together
\* whatever parallelVariants says.
StartLinkAllAtOnce(w, i, pf) ==
    IF i \in pf
    THEN SettleLink([w EXCEPT !.lk[i].pc = "running", !.calls.run[i] = @ + 1], i,
                    Caught(urls[i], folders[i], Error("profile", urls[i], 0)), pf)
    ELSE [CreateVariantTasks(w, 1)
              EXCEPT !.lk[i].pc = "running", !.calls.run[i] = @ + 1,
                     !.vt[i] = [k \in Kinds |-> Started]]

\* Variant of LinkCaptureTask.run() that holds the variants after the first
\* one back until it has resolved, whatever parallelVariants says.
StartLinkDesktopOnly(w, i, pf) ==
    IF i \in pf
    THEN SettleLink([w EXCEPT !.lk[i].pc = "running", !.calls.run[i] = @ + 1], i,
                    Caught(urls[i], folders[i], Error("profile", urls[i], 0)), pf)
    ELSE [CreateVariantTasks(w, 1)
              EXCEPT !.lk[i].pc = "running", !.calls.run[i] = @ + 1,
                     !.vt[i] = [k \in Kinds |->
                         IF k = KindOrder[1] THEN Started ELSE Idle]]

\* runTask(entry) -> LinkCaptureTask.run(), up to its first await.
StartLink(w, i, pf) ==
    IF i \in pf
    THEN SettleLink([w EXCEPT !.lk[i].pc = "running", !.calls.run[i] = @ + 1], i,
                    Caught(urls[i], folders[i], Error("profile", urls[i], 0)), pf)
    ELSE [CreateVariantTasks(w, 1)
              EXCEPT !.lk[i].pc = "running", !.calls.run[i] = @ + 1,
                     !.vt[i] = [k \in Kinds |->
                         IF parallel \/ k = KindOrder[1] THEN Started ELSE Idle]]

\* Variant of the parallel start that calls only the task it is given.
StartFirstOnly(w, i, pf) == StartLink(w, i, pf)

RECURSIVE StartAll(_, _, _)
StartAll(w, i, pf) ==
    IF i > Len(urls) THEN w ELSE StartAll(StartLink(w, i, pf), i + 1, pf)

KindIndex(k) == CHOOSE j \in 1..Len(KindOrder) : KindOrder[j] = k

\* Variant of LinkCaptureTask.run() that returns after its first variant.
AfterVariantFirstDone(w, i, k, v2, keep, pf) ==
    LET w1 == [w EXCEPT !.vt[i][k] = Audit(keep, v2)] IN
    IF ~Settled(v2) \/ w.lk[i].pc # "running" THEN w1
    ELSE IF v2.pc = "failed"
    THEN SettleLink(w1, i, Caught(urls[i], folders[i], v2.err), pf)
    ELSE SettleLink(w1, i, Returns(urls[i], folders[i]), pf)

\* Variant of LinkCaptureTask.run() whose sequential loop goes on to the
\* next variant after a failed one.
AfterVariantGoesOn(w, i, k, v2, keep, pf) ==
    LET w1 == [w EXCEPT !.vt[i][k] = Audit(keep, v2)] IN
    IF ~Settled(v2) \/ w.lk[i].pc # "running" THEN w1
    ELSE IF KindIndex(k) < Len(KindOrder)
    THEN [w1 EXCEPT !.vt[i][KindOrder[KindIndex(k) + 1]] = Started]
    ELSE IF v2.pc = "failed"
    THEN SettleLink(w1, i, Caught(urls[i], folders[i], v2.err), pf)
    ELSE SettleLink(w1, i, Returns(urls[i], folders[i]), pf)

\* Variant k of link i is now v2.
AfterVariant(w, i, k, v2, keep, pf) ==
    LET w1 == [w EXCEPT !.vt[i][k] = Audit(keep, v2)] IN
    IF ~Settled(v2) \/ w.lk[i].pc # "running" THEN w1
    ELSE IF v2.pc = "failed"
    THEN SettleLink(w1, i, Caught(urls[i], folders[i], v2.err), pf)
    ELSE IF parallel
    THEN IF \A kk \in Kinds : w1.vt[i][kk].pc = "done"
         THEN SettleLink(w1, i, Returns(urls[i], folders[i]), pf) ELSE w1
    ELSE IF KindIndex(k) < Len(KindOrder)
    THEN [w1 EXCEPT !.vt[i][KindOrder[KindIndex(k) + 1]] = Started]
    ELSE SettleLink(w1, i, Returns(urls[i], folders[i]), pf)

Commit(w) ==
    /\ vt' = w.vt
    /\ lk' = w.lk
    /\ results' = w.results
    /\ runPc' = w.runPc
    /\ calls' = w.calls
    /\ factory' = w.factory

(***************************************************************************)
(* PageCaptureRunner                                                       *)
(***************************************************************************)
\* slugifyUrl: the sanitized base of a URL, as its '-'-separated parts (the
\* runs of letters and digits of host and path; a trailing '/' is dropped).
\* A part made of digits is written as its number, as is the suffix that
\* the collision loop appends: "a/1" and the first suffixed "a" are both a-1.
Sanitized(url) ==
    CASE url = "a/" -> <<"a">>
      [] url = "a/1" -> <<"a", 1>>
      [] OTHER -> <<url>>

\* Variant of the collision loop that suffixes once, without looking again.
CandidateOnce(base, used, suffix) ==
    IF base \in used THEN Append(base, 1) ELSE base

RECURSIVE Candidate(_, _, _)
Candidate(base, used, suffix) ==
    LET cand == IF suffix = 0 THEN base ELSE Append(base, suffix) IN
    IF cand \in used THEN Candidate(base, used, suffix + 1) ELSE cand

SlugifyUrl(url, used) == Candidate(Sanitized(url), used, 0)

\* item.trim() of a configured rule or server.
TrimmedItem(item) ==
    CASE item = " " -> "" [] item = " b " -> "b" [] OTHER -> item

\* list.map((item) => item.trim()).filter(Boolean)
NonBlank(list) ==
    LET trimmed == [n \in DOMAIN list |-> TrimmedItem(list[n])]
    IN  SelectSeq(trimmed, LAMBDA item : item # "")

\* Variant of buildChromiumLaunchOptions that does not look at
\* CHROMIUM_USE_CUSTOM_DNS.
BuildChromiumLaunchOptionsAlwaysDns(c) ==
    (IF Len(NonBlank(c.rules)) > 0
     THEN <<[flag |-> "--host-resolver-rules=", value |-> NonBlank(c.rules)]>>
     ELSE <<>>)
    \o (IF Len(NonBlank(c.servers)) > 0
        THEN <<[flag |-> "--dns-server=", value |-> NonBlank(c.servers)]>>
        ELSE <<>>)

\* buildChromiumLaunchOptions(): the args of the launch, each flag with the
\* list it joins by commas; no args at all is the empty options object.
BuildChromiumLaunchOptions(c) ==
    LET hostResolverRules == NonBlank(c.rules)
        dnsServers == NonBlank(c.servers)
    IN  (IF Len(hostResolverRules) > 0
         THEN <<[flag |-> "--host-resolver-rules=", value |-> hostResolverRules]>>
         ELSE <<>>)
        \o (IF c.useCustomDns /\ Len(dnsServers) > 0
            THEN <<[flag |-> "--dns-server=", value |-> dnsServers]>>
            ELSE <<>>)

\* chromium.launch(options): the options of every launch are kept.
Launch(c) == [c EXCEPT !.launched = Append(@, BuildChromiumLaunchOptions(c))]

\* Variant of run() that launches the browser although the run folder could
\* not be created.
RunStartLaunchesAnyway ==
    /\ runPc = "idle"
    /\ \E dirOk \in BOOLEAN :
         IF dirOk
         THEN /\ runPc' = "launching"
              /\ calls' = [calls EXCEPT !.notify = @ + 1, !.launch = @ + 1]
              /\ chromium' = Launch(chromium)
              /\ UNCHANGED runErr
         ELSE /\ runPc' = "raised"
              /\ runErr' = Error("mkdir", "", 0)
              /\ calls' = [calls EXCEPT !.launch = @ + 1]
              /\ chromium' = Launch(chromium)
    /\ UNCHANGED <<urls, parallel, rev, cfg, browser, usedNames, folders, lk, vt,
                   results, exitCode, factory, descriptor, logger, linksFile,
                   runs, dom, device, nav, hung>>

\* run() up to chromium.launch(): prepareRunFolder, observers notified.
RunStart ==
    /\ runPc = "idle"
    /\ \E dirOk \in BOOLEAN :
         IF dirOk
         THEN /\ runPc' = "launching"
              /\ calls' = [calls EXCEPT !.notify = @ + 1, !.launch = @ + 1]
              /\ chromium' = Launch(chromium)
              /\ UNCHANGED runErr
         ELSE /\ runPc' = "raised"
              /\ runErr' = Error("mkdir", "", 0)
              /\ UNCHANGED <<calls, chromium>>
    /\ UNCHANGED <<urls, parallel, rev, cfg, browser, usedNames, folders, lk, vt,
                   results, exitCode, factory, descriptor, logger, linksFile,
                   runs, dom, device, nav, hung>>

\* chromium.launch() resolved.
LaunchDone ==
    /\ runPc = "launching"
    /\ \E ok \in BOOLEAN :
         IF ok
         THEN runPc' = "preparing" /\ browser' = "open" /\ UNCHANGED runErr
         ELSE runPc' = "raised" /\ runErr' = Error("launch", "", 0) /\ UNCHANGED browser
    /\ UNCHANGED <<urls, parallel, rev, cfg, usedNames, folders, lk, vt,
                   results, exitCode, calls,
                   factory, aside>>

\* prepareLinkTasks, one URL: prepareLinkDirectory (slugifyUrl, ensureDir).
PrepareLink ==
    /\ runPc = "preparing"
    /\ Len(folders) < Len(urls)
    /\ LET name == SlugifyUrl(urls[Len(folders) + 1], usedNames) IN
       /\ usedNames' = usedNames \cup {name}
       /\ \E dirOk \in BOOLEAN :
            IF dirOk
            THEN /\ folders' = Append(folders, name)
                 /\ UNCHANGED <<runPc, runErr, calls>>
            ELSE /\ runPc' = "closing"
                 /\ runErr' = Error("mkdir", urls[Len(folders) + 1], 0)
                 /\ calls' = [calls EXCEPT !.close = @ + 1]
                 /\ UNCHANGED folders
    /\ UNCHANGED <<urls, parallel, rev, cfg, browser, lk, vt, results, exitCode,
                   factory, aside>>

\* Variant of run() that starts execute() as soon as one link directory
\* has been prepared.
ExecuteEarly ==
    /\ runPc = "preparing"
    /\ Len(folders) >= 1
    /\ LET w0 == [World EXCEPT !.runPc = "executing",
                               !.results = IF parallel
                                           THEN [j \in Links |-> NoOutcome]
                                           ELSE <<>>] IN
       Commit(StartLink(w0, 1, {}))
    /\ UNCHANGED <<urls, parallel, rev, cfg, runErr, browser, usedNames, folders, exitCode,
                   aside>>

\* execute(tasks): all link tasks are started (parallel) or the first one.
Execute ==
    /\ runPc = "preparing"
    /\ Len(folders) = Len(urls)
    /\ \E pf \in SUBSET Queued :
         LET w0 == [World EXCEPT !.runPc = "executing",
                                 !.results = IF parallel
                                             THEN [j \in Links |-> NoOutcome]
                                             ELSE <<>>] IN
         Commit(IF parallel THEN StartAll(w0, 1, pf) ELSE StartLink(w0, 1, pf))
    /\ UNCHANGED <<urls, parallel, rev, cfg, runErr, browser, usedNames, folders, exitCode,
                   aside>>

\* One turn of variant k of link i.
VariantTurn(i, k, keep) ==
    /\ InFlight(vt[i][k])
    /\ \E r \in Results(vt[i][k].pc, Alive), gone \in IsClosedAnswers(vt[i][k].pc, rev),
          pf \in SUBSET Queued :
         Commit(AfterVariant(World, i, k, VStep(Ctx(i), vt[i][k], r, gone), keep, pf))
    /\ UNCHANGED <<urls, parallel, rev, cfg, runErr, browser, usedNames, folders, exitCode,
                   aside>>

\* Variant of report that marks the run failed only when every outcome failed.
ExitCodeAllFailed(res, code) ==
    IF \A i \in 1..Len(res) : ~res[i].success THEN 1 ELSE code

\* report(results)
ExitCodeAfter(res, code) ==
    IF Cardinality({i \in 1..Len(res) : ~res[i].success}) > 0 THEN 1 ELSE code

\* browser.close() resolved: run() reports and returns, or raises.
BrowserCloseDone ==
    /\ runPc = "closing"
    /\ \E ok \in BOOLEAN :
         IF ~ok
         THEN /\ runPc' = "raised"
              /\ runErr' = Error("browserClose", "", 0)
              /\ UNCHANGED <<browser, exitCode>>
         ELSE /\ browser' = "closed"
              /\ IF runErr # NoError
                 THEN runPc' = "raised" /\ UNCHANGED exitCode
                 ELSE runPc' = "returned" /\ exitCode' = ExitCodeAfter(results, exitCode)
              /\ UNCHANGED runErr
    /\ UNCHANGED <<urls, parallel, rev, cfg, usedNames, folders, lk, vt,
                   results, calls,
                   factory, aside>>

(***************************************************************************)
(* Specifications                                                          *)
(***************************************************************************)
DefaultConfig == [idle |-> 1000, stab |-> 2000, content |-> 10000]

\* config.ts: the three descriptors name registered presets by default.
DefaultDescriptors == [k \in Kinds |-> "Pixel 5"]

\* new FileLogger(): no log file yet, nothing buffered.  file is what the log
\* file holds, as the strings written to it and the line ends "\n" between
\* them; recorded lists the lines record() was given and flushed counts
\* the lines that went through flushPending.
NewLogger == [logFilePath |-> "null", pendingLines |-> <<>>,
              file |-> <<>>, recorded |-> <<>>, flushed |-> 0]

\* config.ts: no resolver rules, no custom DNS, two DNS servers.
DefaultChromium ==
    [rules |-> <<>>, useCustomDns |-> FALSE, servers |-> <<"94.140.14.14", "94.140.14.15">>,
     launched |-> <<>>]

\* No page is being evaluated and no device profile is being built apart
\* from the run; the browser is configured as config.ts has it.
InitElsewhere ==
    /\ dom = <<>>
    /\ device = <<>>
    /\ chromium = DefaultChromium
    /\ nav = <<>>
    /\ hung = <<>>

\* main() has loaded the links file and found the URLs of the run; this
\* run is the only one.
InitLoaded ==
    /\ runPc = "idle"
    /\ linksFile = [exists |-> TRUE, lines |-> urls]
    /\ descriptor = DefaultDescriptors
    /\ runs = <<>>
    /\ InitElsewhere

InitRun ==
    /\ runErr = NoError
    /\ browser = "none"
    /\ usedNames = {}
    /\ folders = <<>>
    /\ lk = [i \in Links |-> [pc |-> "queued", outcome |-> NoOutcome]]
    /\ vt = [i \in Links |-> [k \in Kinds |-> Idle]]
    /\ results = <<>>
    /\ exitCode = 0
    /\ calls = [launch |-> 0, close |-> 0, notify |-> 0, run |-> [i \in Links |-> 0],
                warn |-> [k \in Kinds |-> 0], build |-> <<>>]
    /\ factory = [k \in Kinds |-> FALSE]
    /\ logger = NewLogger

\* The whole run, turn by turn.  With parallel capture one link (three
\* concurrent variants) is followed; SpecLinks follows many parallel links.
Init ==
    /\ parallel \in BOOLEAN
    /\ urls \in {SubSeq(InputUrls, 1, m) : m \in 1..MaxUrls}
    /\ parallel => Len(urls) = 1
    /\ rev \in Revisions
    /\ cfg = DefaultConfig
    /\ InitRun
    /\ InitLoaded

Next ==
    \/ RunStart
    \/ LaunchDone
    \/ PrepareLink
    \/ Execute
    \/ \E i \in Links, k \in Kinds : VariantTurn(i, k, FALSE)
    \/ BrowserCloseDone

Spec == Init /\ [][Next]_vars

(***************************************************************************)
(* SpecAudit: one link with sequential variants, every variant keeping the *)
(* audit of its calls (v.log) and the error it was rejected with, over     *)
(* every combination of enabled and disabled waits.                        *)
(***************************************************************************)
Configs == [idle : {0, 1000}, stab : {0, 2000}, content : {0, 10000}]

InitAudit ==
    /\ parallel = FALSE
    /\ urls = SubSeq(InputUrls, 1, 1)
    /\ rev \in Revisions
    /\ cfg \in Configs
    /\ InitRun
    /\ InitLoaded

NextAudit ==
    \/ RunStart
    \/ LaunchDone
    \/ PrepareLink
    \/ Execute
    \/ \E i \in Links, k \in Kinds : VariantTurn(i, k, TRUE)
    \/ BrowserCloseDone

SpecAudit == InitAudit /\ [][NextAudit]_vars

(***************************************************************************)
(* SpecLinks: many links, in both modes, link by link.  The part of        *)
(* LinkCaptureTask.run() after its first await is one step: the variants   *)
(* of the link run to their ends, in any order of completion.              *)
(***************************************************************************)
\* The calls that may throw in SpecLinks; the other calls return.
LinkFaults == {"newContext", "goto"}

ResultsInLinks(pc) ==
    IF pc \in LinkFaults THEN Results(pc, TRUE) ELSE {Returned}

\* The ends VStep can lead variant v to.
RECURSIVE Terminals(_, _)
Terminals(c, v) ==
    IF Settled(v) THEN {v}
    ELSE UNION {Terminals(c, w) :
                    w \in {[VStep(c, v, r, g) EXCEPT !.log = <<>>] :
                              r \in ResultsInLinks(v.pc),
                              g \in IsClosedAnswers(v.pc, c.rev)}}

\* The ends of a variant task, by URL and revision.
Ends ==
    [u \in Urls, rv \in Revisions |->
        Terminals([url |-> u, rev |-> rv, cfg |-> DefaultConfig], Started)]

\* The orders in which the variants of a link may complete.
CompletionOrders ==
    IF parallel
    THEN {p \in [1..Len(KindOrder) -> Kinds] : {p[j] : j \in 1..Len(KindOrder)} = Kinds}
    ELSE {KindOrder}

\* The variants of link i, from the j-th of ks on, run to the ends given.
RECURSIVE RunVariants(_, _, _, _, _, _)
RunVariants(w, i, ks, j, ends, pf) ==
    IF j > Len(ks) THEN w
    ELSE RunVariants(IF InFlight(w.vt[i][ks[j]])
                     THEN AfterVariant(w, i, ks[j], ends[ks[j]], FALSE, pf)
                     ELSE w,
                     i, ks, j + 1, ends, pf)

\* LinkCaptureTask.run() of link i, from its first await to its return.
LinkFinish(i) ==
    /\ lk[i].pc = "running"
    /\ \E ks \in CompletionOrders, ends \in [Kinds -> Ends[urls[i], rev]],
          pf \in SUBSET Queued :
         Commit(RunVariants(World, i, ks, 1, ends, pf))
    /\ UNCHANGED <<urls, parallel, rev, cfg, runErr, browser, usedNames, folders, exitCode,
                   aside>>

InitLinks ==
    /\ parallel \in BOOLEAN
    /\ urls \in {SubSeq(InputUrls, 1, m) : m \in 1..MaxUrls}
    /\ rev \in Revisions
    /\ cfg = DefaultConfig
    /\ InitRun
    /\ InitLoaded

NextLinks ==
    \/ RunStart
    \/ LaunchDone
    \/ PrepareLink
    \/ Execute
    \/ \E i \in Links : LinkFinish(i)
    \/ BrowserCloseDone

SpecLinks == InitLinks /\ [][NextLinks]_vars

(***************************************************************************)
(* SpecSlug: the folder preparation of run(), for every list of URLs, some *)
(* of which share a sanitized base or have a base that is a suffixed name. *)
(***************************************************************************)
MaxSlugUrls == 3

SlugUrls == {"a", "a/", "a/1", "b"}

InitSlug ==
    /\ parallel = FALSE
    /\ urls \in UNION {[1..m -> SlugUrls] : m \in 1..MaxSlugUrls}
    /\ rev = "logged"
    /\ cfg = DefaultConfig
    /\ InitRun
    /\ InitLoaded

NextSlug ==
    \/ RunStart
    \/ LaunchDone
    \/ PrepareLink
    \/ BrowserCloseDone

SpecSlug == InitSlug /\ [][NextSlug]_vars

(***************************************************************************)
(* SpecOutcome: CaptureOutcome.ok and CaptureOutcome.fail applied to URLs, *)
(* folders and thrown values of every shape; results holds what they made. *)
(***************************************************************************)
MaxOutcomes == 2

ThrownValues ==
    {Error("goto", "a", 2), Text("boom"), Text(""),
     Value("oops"), Value(""), Value("undefined")}

\* CaptureOutcome.ok(url, folder)
OutcomeOk ==
    /\ Len(results) < MaxOutcomes
    /\ \E u \in Urls : results' = Append(results, Ok(u, Sanitized(u)))
    /\ UNCHANGED <<urls, parallel, rev, cfg, runPc, runErr, browser, usedNames,
                   folders, lk, vt, exitCode, calls,
                   factory, aside>>

\* CaptureOutcome.fail(url, folder, error)
OutcomeFail ==
    /\ Len(results) < MaxOutcomes
    /\ \E u \in Urls, t \in ThrownValues :
         results' = Append(results, Fail(u, Sanitized(u), t))
    /\ UNCHANGED <<urls, parallel, rev, cfg, runPc, runErr, browser, usedNames,
                   folders, lk, vt, exitCode, calls,
                   factory, aside>>

InitOutcome ==
    /\ parallel = FALSE
    /\ urls = SubSeq(InputUrls, 1, 1)
    /\ rev = "logged"
    /\ cfg = DefaultConfig
    /\ InitRun
    /\ InitLoaded

NextOutcome == OutcomeOk \/ OutcomeFail

SpecOutcome == InitOutcome /\ [][NextOutcome]_vars

(***************************************************************************)
(* SpecFactory: the DeviceContextFactory of a process asked for context    *)
(* options in any order, under every configuration of descriptor names;    *)
(* calls.build holds what it was asked and what it returned.               *)
(***************************************************************************)
MaxBuilds == 3

\* buildDesktopContextOptions / buildTabletContextOptions /
\* buildMobileContextOptions
BuildContextOptions(kind) ==
    /\ Len(calls.build) < MaxBuilds
    /\ LET b == BuildDeviceProfile(World, kind) IN
       Commit([b.f EXCEPT !.calls.build =
                   Append(@, [kind |-> kind, options |-> b.options])])
    /\ UNCHANGED <<urls, parallel, rev, cfg, runErr, browser, usedNames, folders, exitCode,
                   aside>>

InitFactory ==
    /\ parallel = FALSE
    /\ urls = SubSeq(InputUrls, 1, 1)
    /\ rev = "logged"
    /\ cfg = DefaultConfig
    /\ InitRun
    /\ runPc = "idle"
    /\ linksFile = [exists |-> TRUE, lines |-> urls]
    /\ descriptor \in [Kinds -> DescriptorNames]
    /\ runs = <<>>
    /\ InitElsewhere

NextFactory == \E kind \in Kinds : BuildContextOptions(kind)

SpecFactory == InitFactory /\ [][NextFactory]_vars

(***************************************************************************)
(* SpecLogger: the FileLogger given lines and run folders in any order.    *)
(* The logged revision appends to the file at logFilePath with             *)
(* appendFileSync; the plain one writes to the sink opened on it.  Every   *)
(* write succeeds.                                                         *)
(***************************************************************************)
MaxLines == 3

Levels == {"log", "warn", "error"}

RunFolders == {"r1", "r2"}

\* level.toUpperCase()
UpperCase(level) ==
    CASE level = "log" -> "LOG" [] level = "warn" -> "WARN" [] level = "error" -> "ERROR"

\* record: `[${time}] [${level.toUpperCase()}] ${stringifyArgs(args)}`; the
\* time of day is left out.
FormattedLine(level, text) == <<UpperCase(level), text>>

\* pendingLines.join("\n")
RECURSIVE Join(_)
Join(lines) ==
    IF lines = <<>> THEN <<>>
    ELSE IF Len(lines) = 1 THEN <<lines[1]>>
    ELSE <<lines[1], "\n">> \o Join(Tail(lines))

\* for (const line of bufferedLines) writer.write(`${line}\n`)
RECURSIVE WriteEach(_, _)
WriteEach(file, lines) ==
    IF lines = <<>> THEN file
    ELSE WriteEach(file \o <<lines[1], "\n">>, Tail(lines))

\* flushPending()
FlushPending(l) ==
    IF l.logFilePath = "null" \/ l.pendingLines = <<>> THEN l
    ELSE IF rev = "logged"
    THEN [l EXCEPT !.pendingLines = <<>>,
                   !.file = @ \o Join(l.pendingLines) \o <<"\n">>,
                   !.flushed = @ + Len(l.pendingLines)]
    ELSE [l EXCEPT !.pendingLines = <<>>,
                   !.file = WriteEach(@, l.pendingLines),
                   !.flushed = @ + Len(l.pendingLines)]

\* record(level, args), on the logger l
RecordLine(l, line) ==
    IF l.logFilePath = "null"
    THEN [l EXCEPT !.pendingLines = Append(@, line), !.recorded = Append(@, line)]
    ELSE LET l1 == IF l.pendingLines # <<>> THEN FlushPending(l) ELSE l IN
         [l1 EXCEPT !.file = @ \o <<line, "\n">>, !.recorded = Append(@, line)]

\* Variant of attachTo that leaves the buffered lines to the next record().
AttachToWithoutFlush(l, runFolder) ==
    IF l.logFilePath = "null" THEN [l EXCEPT !.logFilePath = runFolder] ELSE l

\* Variant of attachTo that moves the log to the folder of the latest call.
AttachToLatest(l, runFolder) ==
    LET l1 == [l EXCEPT !.logFilePath = runFolder]
    IN  IF l1.pendingLines # <<>> THEN FlushPending(l1) ELSE l1

\* attachTo(runFolder), on the logger l
AttachTo(l, runFolder) ==
    LET l1 == IF l.logFilePath = "null"
              THEN [l EXCEPT !.logFilePath = runFolder] ELSE l
    IN  IF l1.pendingLines # <<>> THEN FlushPending(l1) ELSE l1

\* console.log / console.warn / console.error -> fileLogger.record
Record ==
    /\ Len(logger.recorded) < MaxLines
    /\ \E level \in Levels, text \in {"x"} :
         logger' = RecordLine(logger, FormattedLine(level, text))
    /\ UNCHANGED <<urls, parallel, rev, cfg, runPc, runErr, browser, usedNames,
                   folders, lk, vt, results, exitCode, calls, descriptor, factory,
                   linksFile, runs,
                   dom, device, chromium, nav, hung>>

\* RunFolderLoggingObserver.onRunFolderReady -> fileLogger.attachTo
Attach ==
    /\ \E runFolder \in RunFolders : logger' = AttachTo(logger, runFolder)
    /\ UNCHANGED <<urls, parallel, rev, cfg, runPc, runErr, browser, usedNames,
                   folders, lk, vt, results, exitCode, calls, descriptor, factory,
                   linksFile, runs,
                   dom, device, chromium, nav, hung>>

InitLogger ==
    /\ parallel = FALSE
    /\ urls = SubSeq(InputUrls, 1, 1)
    /\ rev \in Revisions
    /\ cfg = DefaultConfig
    /\ InitRun
    /\ InitLoaded

NextLogger == Record \/ Attach

SpecLogger == InitLogger /\ [][NextLogger]_vars

(***************************************************************************)
(* SpecLoad: main() from its start, over every links file of up to         *)
(* MaxFileLines lines: loadUrlsFromFile, the construction of the runner,   *)
(* and the start of its run.                                               *)
(***************************************************************************)
MaxFileLines == 3

\* The lines a links file may hold: an empty line, a blank one, an absolute
\* URL in its normal form, the same with blanks around it, a host without
\* a scheme, and text that is no URL with or without "https://" before it.
FileLines == {"", "  ", "a", " a ", "b.example", "not a url"}

LinksFiles ==
    {[exists |-> FALSE, lines |-> <<>>]} \cup
    {[exists |-> TRUE, lines |-> ls] :
         ls \in UNION {[1..m -> FileLines] : m \in 0..MaxFileLines}}

\* line.trim()
TrimmedLine(line) ==
    CASE line = "  " -> "" [] line = " a " -> "a" [] OTHER -> line

\* content.split(/\r?\n/).map(trim).filter(non-empty)
RECURSIVE RawUrls(_)
RawUrls(lines) ==
    IF lines = <<>> THEN <<>>
    ELSE IF TrimmedLine(lines[1]) = "" THEN RawUrls(Tail(lines))
    ELSE <<TrimmedLine(lines[1])>> \o RawUrls(Tail(lines))

\* normalizeUrl(rawUrl): new URL(rawUrl).toString(), else
\* new URL(`https://${rawUrl}`).toString(), else it throws ("invalid").
NormalizeUrl(rawUrl) ==
    CASE rawUrl = "b.example" -> "b"
      [] rawUrl = "not a url" -> "invalid"
      [] OTHER -> rawUrl

RECURSIVE Normalized(_)
Normalized(rawUrls) ==
    IF rawUrls = <<>> THEN <<>>
    ELSE IF NormalizeUrl(rawUrls[1]) = "invalid" THEN Normalized(Tail(rawUrls))
    ELSE <<NormalizeUrl(rawUrls[1])>> \o Normalized(Tail(rawUrls))

\* Variant of loadUrlsFromFile that returns the entries it could normalize.
LoadValidUrls(file) ==
    IF ~file.exists \/ Normalized(RawUrls(file.lines)) = <<>>
    THEN [threw |-> TRUE, urls |-> <<>>]
    ELSE [threw |-> FALSE, urls |-> Normalized(RawUrls(file.lines))]

\* loadUrlsFromFile(filePath)
LoadUrlsFromFile(file) ==
    IF ~file.exists THEN [threw |-> TRUE, urls |-> <<>>]
    ELSE LET rawUrls == RawUrls(file.lines)
             normalizedUrls == Normalized(rawUrls)
         IN  IF rawUrls = <<>> THEN [threw |-> TRUE, urls |-> <<>>]
             ELSE IF Len(normalizedUrls) < Len(rawUrls)
             THEN [threw |-> TRUE, urls |-> <<>>]
             ELSE [threw |-> FALSE, urls |-> normalizedUrls]

\* main(): the links are loaded; on an error the message is printed and
\* the process exits with status 1, otherwise the runner is constructed.
Main ==
    /\ runPc = "main"
    /\ LET r == LoadUrlsFromFile(linksFile) IN
       IF r.threw
       THEN /\ runPc' = "exited"
            /\ exitCode' = 1
            /\ logger' = RecordLine(logger, FormattedLine("error", "x"))
            /\ UNCHANGED <<urls, lk, vt, calls>>
       ELSE /\ runPc' = "idle"
            /\ urls' = r.urls
            /\ lk' = [i \in 1..Len(r.urls) |-> [pc |-> "queued", outcome |-> NoOutcome]]
            /\ vt' = [i \in 1..Len(r.urls) |-> [k \in Kinds |-> Idle]]
            /\ calls' = [calls EXCEPT !.run = [i \in 1..Len(r.urls) |-> 0]]
            /\ UNCHANGED <<exitCode, logger>>
    /\ UNCHANGED <<parallel, rev, cfg, runErr, browser, usedNames, folders, results,
                   descriptor, factory, linksFile, runs,
                   dom, device, chromium, nav, hung>>

InitLoad ==
    /\ parallel = FALSE
    /\ urls = <<>>
    /\ rev = "logged"
    /\ cfg = DefaultConfig
    /\ InitRun
    /\ runPc = "main"
    /\ linksFile \in LinksFiles
    /\ descriptor = DefaultDescriptors
    /\ runs = <<>>
    /\ InitElsewhere

NextLoad ==
    \/ Main
    \/ RunStart
    \/ LaunchDone
    \/ PrepareLink
    \/ BrowserCloseDone

SpecLoad == InitLoad /\ [][NextLoad]_vars

(***************************************************************************)
(* SpecRuns: two runs of the tool in one working directory with one output *)
(* directory, started at any two instants; each prepares its run folder.   *)
(***************************************************************************)
MaxSeconds == 3

RunIds == {1, 2}

\* The instants new Date() may return, in milliseconds.
Instants == {1000 * sec + ms : sec \in 0..(MaxSeconds - 1), ms \in {0, 500, 999}}

\* formatTimestamp(now): day, month, year, hour, minute and second of now,
\* joined by "-"; it names the second now falls in.  <<>> is no name.
FormatTimestamp(now) == <<now \div 1000>>

\* prepareRunFolder() of run r: the folder is named after the current
\* second and made with mkdir -p, which succeeds if it exists already.
PrepareRunFolder(r) ==
    /\ runs.folder[r] = <<>>
    /\ LET runFolder == FormatTimestamp(runs.start[r]) IN
       runs' = [runs EXCEPT !.folder[r] = runFolder, !.dirs = @ \cup {runFolder}]
    /\ UNCHANGED <<urls, parallel, rev, cfg, runPc, runErr, browser, usedNames,
                   folders, lk, vt, results, exitCode, calls, descriptor, factory,
                   logger, linksFile, dom, device, chromium, nav, hung>>

InitRuns ==
    /\ parallel = FALSE
    /\ urls = SubSeq(InputUrls, 1, 1)
    /\ rev = "logged"
    /\ cfg = DefaultConfig
    /\ InitRun
    /\ runPc = "idle"
    /\ linksFile = [exists |-> TRUE, lines |-> urls]
    /\ descriptor = DefaultDescriptors
    /\ runs \in [start : [RunIds -> Instants], folder : {[r \in RunIds |-> <<>>]},
                 dirs : {{}}]
    /\ InitElsewhere

NextRuns == \E r \in RunIds : PrepareRunFolder(r)

SpecRuns == InitRuns /\ [][NextRuns]_vars

(***************************************************************************)
(* SpecContexts: parallel capture of one to MaxUrls links, followed by the *)
(* browsing contexts: a variant's browser.newContext() resolves in one     *)
(* step, returning or throwing, and the rest of its run() (page,           *)
(* navigation, capture, closes, write) in another, every call returning.   *)
(***************************************************************************)
\* The ends of variant v when every call it still makes returns and the
\* page answers 200.
RECURSIVE Completions(_, _)
Completions(c, v) ==
    IF Settled(v) THEN {v}
    ELSE UNION {Completions(c, w) :
                    w \in {[VStep(c, v, IF v.pc = "goto" THEN Response(200)
                                                         ELSE Returned, g)
                               EXCEPT !.log = <<>>] :
                              g \in IsClosedAnswers(v.pc, c.rev)}}

\* The ends of a variant whose context has just been opened, by URL and
\* revision.
Completed ==
    [u \in Urls, rv \in Revisions |->
        Completions([url |-> u, rev |-> rv, cfg |-> DefaultConfig],
                    [Started EXCEPT !.pc = "newPage"])]

\* browser.newContext() of variant k of link i resolved.
ContextTurn(i, k) ==
    /\ vt[i][k].pc = "newContext"
    /\ \E r \in Results("newContext", Alive) :
         Commit(AfterVariant(World, i, k, VStep(Ctx(i), vt[i][k], r, FALSE), FALSE, {}))
    /\ UNCHANGED <<urls, parallel, rev, cfg, runErr, browser, usedNames, folders, exitCode,
                   aside>>

\* Variant k of link i, its context open, runs to its end.
CaptureTurn(i, k) ==
    /\ vt[i][k].pc = "newPage"
    /\ \E end \in Completed[urls[i], rev] :
         Commit(AfterVariant(World, i, k, end, FALSE, {}))
    /\ UNCHANGED <<urls, parallel, rev, cfg, runErr, browser, usedNames, folders, exitCode,
                   aside>>

InitContexts ==
    /\ parallel = TRUE
    /\ urls \in {SubSeq(InputUrls, 1, m) : m \in 1..MaxUrls}
    /\ rev \in Revisions
    /\ cfg = DefaultConfig
    /\ InitRun
    /\ InitLoaded

NextContexts ==
    \/ RunStart
    \/ LaunchDone
    \/ PrepareLink
    \/ Execute
    \/ \E i \in Links, k \in Kinds : ContextTurn(i, k)
    \/ \E i \in Links, k \in Kinds : CaptureTurn(i, k)
    \/ BrowserCloseDone

SpecContexts == InitContexts /\ [][NextContexts]_vars

(***************************************************************************)
(* SpecShared: SpecLinks for MaxSharedUrls links under configurations      *)
(* whose device descriptors are registered, blank or not registered; the   *)
(* factory shared by the link tasks is asked for its profiles inside each  *)
(* LinkCaptureTask.run().                                                  *)
(***************************************************************************)
MaxSharedUrls == 2

SharedDescriptors ==
    {DefaultDescriptors,
     [k \in Kinds |-> CASE k = "Desktop" -> "Nokia"
                        [] k = "Tablet" -> " "
                        [] OTHER -> "Pixel 5"]}

InitShared ==
    /\ parallel \in BOOLEAN
    /\ urls = SubSeq(InputUrls, 1, MaxSharedUrls)
    /\ rev = "logged"
    /\ cfg = DefaultConfig
    /\ InitRun
    /\ runPc = "idle"
    /\ linksFile = [exists |-> TRUE, lines |-> urls]
    /\ descriptor \in SharedDescriptors
    /\ runs = <<>>
    /\ InitElsewhere

SpecShared == InitShared /\ [][NextLinks]_vars

(***************************************************************************)
(* SpecReady: the predicate waitForMeaningfulContent hands to              *)
(* page.waitForFunction, evaluated once in every document of DomStates.    *)
(* The predicate runs in the page, on the DOM of the browser.              *)
(***************************************************************************)
\* innerText values: none, blanks only, some text.
Texts == {"", " ", "t"}

\* text.trim()
TrimmedText(text) == IF text = " " THEN "" ELSE text

\* The documents: document.body or none; the body's innerText; the first
\* element matching "img, video, iframe, canvas, svg, picture, main,
\* article, section, div" - none, an HTMLElement, or an element that is not
\* one (an <svg>) - with its innerText (an <svg> has none) and the width
\* and height of its bounding rectangle.
DomStates ==
    [body : BOOLEAN, bodyText : Texts, element : {"none", "html", "svg"},
     elementText : Texts, width : {0, 1}, height : {0, 1}, answer : {"pending"}]

Answer(b) == IF b THEN "ready" ELSE "notReady"

\* part_001:190-224.  body.querySelector is read into a constant and called
\* without its receiver; on the browser's DOM such a call throws a
\* TypeError (illegal invocation) before any element is looked at.
PredicateLogged(d) ==
    IF ~d.body THEN Answer(FALSE)
    ELSE IF TrimmedText(d.bodyText) # "" THEN Answer(TRUE)
    ELSE "raised"

\* src/src/variantCaptureTask.ts:114-150
PredicatePlain(d) ==
    IF ~d.body THEN Answer(FALSE)
    ELSE IF TrimmedText(d.bodyText) # "" THEN Answer(TRUE)
    ELSE IF d.element = "none" THEN Answer(FALSE)
    ELSE IF d.element = "html"
    THEN IF TrimmedText(d.elementText) # "" THEN Answer(TRUE)
         ELSE Answer(d.width > 0 /\ d.height > 0)
    ELSE Answer(TRUE)

\* One evaluation of the predicate by page.waitForFunction.
Evaluate ==
    /\ dom.answer = "pending"
    /\ dom' = [dom EXCEPT !.answer = IF rev = "logged" THEN PredicateLogged(dom)
                                                       ELSE PredicatePlain(dom)]
    /\ UNCHANGED <<urls, parallel, rev, cfg, runPc, runErr, browser, usedNames,
                   folders, lk, vt, results, exitCode, calls, descriptor, factory,
                   logger, linksFile, runs, device, chromium, nav, hung>>

InitReady ==
    /\ parallel = FALSE
    /\ urls = SubSeq(InputUrls, 1, 1)
    /\ rev \in Revisions
    /\ cfg = DefaultConfig
    /\ InitRun
    /\ runPc = "idle"
    /\ linksFile = [exists |-> TRUE, lines |-> urls]
    /\ descriptor = DefaultDescriptors
    /\ runs = <<>>
    /\ dom \in DomStates
    /\ device = <<>>
    /\ chromium = DefaultChromium
    /\ nav = <<>>
    /\ hung = <<>>

NextReady == Evaluate

SpecReady == InitReady /\ [][NextReady]_vars

(***************************************************************************)
(* SpecProfile: buildDeviceProfile field by field.  An options object is a *)
(* function from the keys it has to where each value comes from.           *)
(***************************************************************************)
Undefined == "undefined"

\* The six fields normalizeDescriptor completes from the fallback.
ProfileFields ==
    {"viewport", "screen", "deviceScaleFactor", "isMobile", "hasTouch", "userAgent"}

OverrideFields == {"locale", "timezoneId", "colorScheme"}

\* options.key
Get(options, key) == IF key \in DOMAIN options THEN options[key] ELSE Undefined

\* a ?? b
Coalesce(a, b) == IF a = Undefined THEN b ELSE a

\* { ...a, ...b }
Spread(a, b) ==
    [key \in DOMAIN a \cup DOMAIN b |-> IF key \in DOMAIN b THEN b[key] ELSE a[key]]

\* const { defaultBrowserType, ...options } = descriptor
Without(options, dropped) == [key \in DOMAIN options \ {dropped} |-> options[key]]

\* The presets of the registry: any of the six fields, and the engine name.
Presets ==
    {[key \in some \cup {"defaultBrowserType"} |-> "preset"] : some \in SUBSET ProfileFields}

\* The fallback of build<Kind>ContextOptions (withScreen always adds the
\* screen: config.<KIND>_SCREEN is an object).
FallbackFields == [key \in ProfileFields |-> "fallback"]

\* The overrides handed to mergeOptions: locale, timezoneId and colorScheme,
\* with or without a viewport and a screen of their own.
Overrides ==
    {[key \in OverrideFields \cup more |-> "override"] : more \in SUBSET {"viewport", "screen"}}

\* Variant of normalizeDescriptor in which the fallback's fields win.
NormalizeFallbackWins(preset, fallback) ==
    Spread(Without(preset, "defaultBrowserType"), fallback)

\* normalizeDescriptor(descriptor, fallback)
NormalizeDescriptorFields(preset, fallback) ==
    LET options == Without(preset, "defaultBrowserType") IN
    Spread(options,
           [key \in ProfileFields |-> Coalesce(Get(options, key), Get(fallback, key))])

\* mergeOptions(baseOptions, overrides)
MergeOptionsFields(baseOptions, overrides) ==
    Spread(Spread(baseOptions, overrides),
           [key \in {"viewport", "screen"} |->
               Coalesce(Get(overrides, key), Get(baseOptions, key))])

\* buildDeviceProfile({descriptorName, type, fallback, overrides}) of the
\* drawn registry entry and overrides, for one kind.
BuildProfile(kind) ==
    /\ device.result = <<>>
    /\ LET f == [calls |-> calls, factory |-> factory]
           r == ResolveDescriptor(f, device.descriptorName, kind)
           baseOptions == IF r.descriptor # "null"
                          THEN NormalizeDescriptorFields(device.preset, FallbackFields)
                          ELSE FallbackFields
       IN  /\ device' = [device EXCEPT
                            !.result = <<MergeOptionsFields(baseOptions, device.overrides)>>,
                            !.type = kind]
           /\ calls' = r.f.calls
           /\ factory' = r.f.factory
    /\ UNCHANGED <<urls, parallel, rev, cfg, runPc, runErr, browser, usedNames,
                   folders, lk, vt, results, exitCode, descriptor,
                   logger, linksFile, runs, dom, chromium, nav, hung>>

InitProfile ==
    /\ parallel = FALSE
    /\ urls = SubSeq(InputUrls, 1, 1)
    /\ rev = "logged"
    /\ cfg = DefaultConfig
    /\ InitRun
    /\ runPc = "idle"
    /\ linksFile = [exists |-> TRUE, lines |-> urls]
    /\ descriptor = DefaultDescriptors
    /\ runs = <<>>
    /\ dom = <<>>
    /\ device \in [descriptorName : DescriptorNames, preset : Presets,
                   overrides : Overrides, type : {"none"}, result : {<<>>}]
    /\ chromium = DefaultChromium
    /\ nav = <<>>
    /\ hung = <<>>

NextProfile == \E kind \in Kinds : BuildProfile(kind)

SpecProfile == InitProfile /\ [][NextProfile]_vars

(***************************************************************************)
(* SpecLaunch: the run of one URL under every Chromium configuration the   *)
(* environment can give: CHROMIUM_HOST_RESOLVER_RULES and                  *)
(* CHROMIUM_DNS_SERVERS unset or a comma-separated list of up to MaxItems  *)
(* items, CHROMIUM_USE_CUSTOM_DNS true or false.  The variants run as in   *)
(* SpecContexts.                                                           *)
(***************************************************************************)
MaxItems == 2

\* The items between the commas of an environment value.
Items == {"", " ", "a", " b "}

\* An environment value split at its commas; <<>> is the unset variable.
EnvLists == UNION {[1..n -> Items] : n \in 0..MaxItems}

\* stringArrayFromEnv(defaultValue): the default for an unset or blank
\* value, else the trimmed non-empty items.
StringArrayFromEnv(value, defaultValue) ==
    IF value = <<>> \/ (Len(value) = 1 /\ TrimmedItem(value[1]) = "")
    THEN defaultValue
    ELSE NonBlank(value)

InitLaunch ==
    /\ parallel \in BOOLEAN
    /\ urls = SubSeq(InputUrls, 1, 1)
    /\ rev = "logged"
    /\ cfg = DefaultConfig
    /\ InitRun
    /\ runPc = "idle"
    /\ linksFile = [exists |-> TRUE, lines |-> urls]
    /\ descriptor = DefaultDescriptors
    /\ runs = <<>>
    /\ dom = <<>>
    /\ device = <<>>
    /\ \E rules \in EnvLists, servers \in EnvLists, useCustomDns \in BOOLEAN :
         chromium = [rules |-> StringArrayFromEnv(rules, DefaultChromium.rules),
                     useCustomDns |-> useCustomDns,
                     servers |-> StringArrayFromEnv(servers, DefaultChromium.servers),
                     launched |-> <<>>]
    /\ nav = <<>>
    /\ hung = <<>>

SpecLaunch == InitLaunch /\ [][NextContexts]_vars

(***************************************************************************)
(* SpecNavigate: navigateWithFallback on its own, over everything its two  *)
(* page.goto attempts can meet: no response, a response with a status, an  *)
(* Error thrown, or a thrown value that is not an Error.                   *)
(***************************************************************************)
\* What page.goto of strategy n may throw.
ThrownByGoto(url, n) == {Error("goto", url, n), [kind |-> "value", url |-> "oops", n |-> n]}

\* What the attempt of strategy n may meet: the result of page.goto and, if
\* it threw, the value thrown.
Attempts(url, n) ==
    {[res |-> r, thrown |-> NoError] : r \in GotoResults \ {Threw}}
    \cup {[res |-> Threw, thrown |-> t] : t \in ThrownByGoto(url, n)}

\* What the catch block of the attempt receives (NoError: nothing thrown).
AttemptError(url, a) ==
    IF a.res.threw THEN a.thrown ELSE ValidateNavigationResponse(url, a.res)

\* One pass of the loop of navigateWithFallback: page.goto of the strategy
\* resolves, the response is validated, a failure is caught.
NavigationAttempt ==
    /\ nav # <<>>
    /\ nav.v.pc = "goto"
    /\ \E gone \in IsClosedAnswers("goto", rev) :
         nav' = [nav EXCEPT !.v =
                    NavigateWithFallback([url |-> urls[1], rev |-> rev, cfg |-> cfg],
                                         nav.v,
                                         AttemptError(urls[1], nav.attempts[nav.v.strat]),
                                         gone)]
    /\ UNCHANGED <<urls, parallel, rev, cfg, runPc, runErr, browser, usedNames,
                   folders, lk, vt, results, exitCode, calls, descriptor, factory,
                   logger, linksFile, runs, dom, device, chromium, hung>>

InitNavigate ==
    /\ parallel = FALSE
    /\ urls \in {<<u>> : u \in Urls}
    /\ rev \in Revisions
    /\ cfg = DefaultConfig
    /\ InitRun
    /\ runPc = "idle"
    /\ linksFile = [exists |-> TRUE, lines |-> urls]
    /\ descriptor = DefaultDescriptors
    /\ runs = <<>>
    /\ dom = <<>>
    /\ device = <<>>
    /\ chromium = DefaultChromium
    /\ \E first \in Attempts(urls[1], 1), second \in Attempts(urls[1], 2) :
         nav = [attempts |-> <<first, second>>,
                v |-> [Started EXCEPT !.pc = "goto", !.strat = 1]]
    /\ hung = <<>>

NextNavigate == NavigationAttempt

SpecNavigate == InitNavigate /\ [][NextNavigate]_vars

(***************************************************************************)
(* SpecLive: the run of SpecContexts in both modes, every awaited call     *)
(* resolving sooner or later - but for the one call hung names, if it      *)
(* names one, which never resolves.  Nothing in the program bounds a call  *)
(* from outside: there is no run-level deadline and no cancellation.       *)
(***************************************************************************)
HangAt(call, i, k) == [call |-> call, link |-> i, kind |-> k]

\* The calls that may be the one that never completes: the launch, the
\* close of the browser, the creation of a variant's context, and the calls
\* a variant makes once it has its context.
HangPoints ==
    {HangAt("launch", 0, "none"), HangAt("browserClose", 0, "none")}
    \cup {HangAt(call, i, k) : call \in {"newContext", "newPage"},
                               i \in 1..MaxUrls, k \in Kinds}

\* chromium.launch() resolves.
LaunchResolves == hung # HangAt("launch", 0, "none") /\ LaunchDone

\* browser.newContext() of variant k of link i resolves.
ContextResolves(i, k) ==
    i \in Links /\ hung # HangAt("newContext", i, k) /\ ContextTurn(i, k)

\* The calls of variant k of link i after its context resolve.
CaptureResolves(i, k) ==
    i \in Links /\ hung # HangAt("newPage", i, k) /\ CaptureTurn(i, k)

\* browser.close() resolves.
BrowserCloseResolves == hung # HangAt("browserClose", 0, "none") /\ BrowserCloseDone

InitLive ==
    /\ parallel \in BOOLEAN
    /\ urls \in {SubSeq(InputUrls, 1, m) : m \in 1..MaxUrls}
    /\ rev = "logged"
    /\ cfg = DefaultConfig
    /\ InitRun
    /\ runPc = "idle"
    /\ linksFile = [exists |-> TRUE, lines |-> urls]
    /\ descriptor = DefaultDescriptors
    /\ runs = <<>>
    /\ dom = <<>>
    /\ device = <<>>
    /\ chromium = DefaultChromium
    /\ nav = <<>>
    /\ hung \in {<<>>} \cup {h \in HangPoints : h.link <= Len(urls)}

NextLive ==
    \/ RunStart
    \/ LaunchResolves
    \/ PrepareLink
    \/ Execute
    \/ \E i \in 1..MaxUrls, k \in Kinds : ContextResolves(i, k)
    \/ \E i \in 1..MaxUrls, k \in Kinds : CaptureResolves(i, k)
    \/ BrowserCloseResolves

\* The event loop runs every continuation that is ready, and every call
\* other than the hung one resolves.
Fairness ==
    /\ WF_vars(RunStart)
    /\ WF_vars(LaunchResolves)
    /\ WF_vars(PrepareLink)
    /\ WF_vars(Execute)
    /\ \A i \in 1..MaxUrls, k \in Kinds :
          WF_vars(ContextResolves(i, k)) /\ WF_vars(CaptureResolves(i, k))
    /\ WF_vars(BrowserCloseResolves)

SpecLive == InitLive /\ [][NextLive]_vars /\ Fairness

(***************************************************************************)
(* SpecObserve: run() from its call to the launch of the browser, with the *)
(* observer main() registers (a RunFolderLoggingObserver on the            *)
(* FileLogger that console.log feeds), and the FileLogger open to further  *)
(* record() and attachTo() calls.                                          *)
(***************************************************************************)
\* notifyRunFolderObservers(runFolder): the one registered observer attaches
\* the logger to the run folder.
NotifyRunFolderObservers(l, runFolder) == AttachTo(l, runFolder)

\* run() is called: it logs its start and asks for the run folder.
RunCalled ==
    /\ runPc = "idle"
    /\ runPc' = "ensuring"
    /\ logger' = RecordLine(logger, FormattedLine("log", "Starting capture run"))
    /\ UNCHANGED <<urls, parallel, rev, cfg, runErr, browser, usedNames, folders,
                   lk, vt, results, exitCode, calls, descriptor, factory,
                   linksFile, runs, dom, device, chromium, nav, hung>>

\* ensureDir(runFolder) of prepareRunFolder resolved: the observers are
\* notified and the folder is reported, or run() raises.
RunFolderReady ==
    /\ runPc = "ensuring"
    /\ \E runFolder \in RunFolders, dirOk \in BOOLEAN :
         IF dirOk
         THEN /\ runPc' = "folderReady"
              /\ runs' = [folder |-> <<runFolder>>, dirs |-> {runFolder}]
              /\ calls' = [calls EXCEPT !.notify = @ + 1]
              /\ logger' = RecordLine(NotifyRunFolderObservers(logger, runFolder),
                                      FormattedLine("log", "Run folder ready"))
              /\ UNCHANGED runErr
         ELSE /\ runPc' = "raised"
              /\ runErr' = Error("mkdir", "", 0)
              /\ UNCHANGED <<runs, calls, logger>>
    /\ UNCHANGED <<urls, parallel, rev, cfg, browser, usedNames, folders,
                   lk, vt, results, exitCode, descriptor, factory,
                   linksFile, dom, device, chromium, nav, hung>>

\* run() resumes with the run folder and launches the browser.
LaunchCalled ==
    /\ runPc = "folderReady"
    /\ runPc' = "launching"
    /\ logger' = RecordLine(logger, FormattedLine("log", "Launching Chromium browser..."))
    /\ calls' = [calls EXCEPT !.launch = @ + 1]
    /\ chromium' = Launch(chromium)
    /\ UNCHANGED <<urls, parallel, rev, cfg, runErr, browser, usedNames, folders,
                   lk, vt, results, exitCode, descriptor, factory,
                   linksFile, runs, dom, device, nav, hung>>

InitObserve ==
    /\ parallel = FALSE
    /\ urls = SubSeq(InputUrls, 1, 1)
    /\ rev \in Revisions
    /\ cfg = DefaultConfig
    /\ InitRun
    /\ runPc = "idle"
    /\ linksFile = [exists |-> TRUE, lines |-> urls]
    /\ descriptor = DefaultDescriptors
    /\ runs = [folder |-> <<>>, dirs |-> {}]
    /\ InitElsewhere

NextObserve == RunCalled \/ RunFolderReady \/ LaunchCalled \/ Record \/ Attach

SpecObserve == InitObserve /\ [][NextObserve]_vars

(***************************************************************************)
(* Properties                                                              *)
(***************************************************************************)
\* What the audit of a variant says.
CallsTo(v, names) == {j \in 1..Len(v.log) : v.log[j].call \in names}
Count(v, names) == Cardinality(CallsTo(v, names))
ContextCreated(v) == \E j \in CallsTo(v, {"newContext"}) : ~v.log[j].res.threw
PageCreated(v) == \E j \in CallsTo(v, {"newPage"}) : ~v.log[j].res.threw
HandlerCompleted(v) == \E j \in CallsTo(v, {"pageContent"}) : ~v.log[j].res.threw
PageCloseCalls(v) == CallsTo(v, {"pageClose", "pageCloseFinally"})
ContextCloseCalls(v) == CallsTo(v, {"contextClose"})
SaidOpen(v) == {j \in CallsTo(v, {"isClosed"}) : v.log[j].arg = "false"}
SaidClosed(v) == {j \in CallsTo(v, {"isClosed"}) : v.log[j].arg = "true"}
IsGoto(en) == en.call = "goto"
Gotos(v) == SelectSeq(v.log, IsGoto)
NextCall(v, j) == IF j < Len(v.log) THEN v.log[j + 1].call ELSE v.pc
AttemptSucceeded(r) == ~r.threw /\ (~r.hasResponse \/ r.status < 400)
LastStrategy == NavigationStrategies[Len(NavigationStrategies)]
StrategyIndex(name) ==
    CHOOSE s \in 1..Len(NavigationStrategies) : NavigationStrategies[s] = name
EntryError(c, en) ==
    CallError(c, en.call, IF en.call = "goto" THEN StrategyIndex(en.arg) ELSE 0, en.res)
\* The errors thrown by the handler passed to withContext.
HandlerErrors(c, v) ==
    {EntryError(c, v.log[j]) :
        j \in {m \in CallsTo(v, {"goto", "idleWait", "stabilize", "content",
                                 "screenshot", "pageContent"}) :
                 v.log[m].call = "goto" => v.log[m].arg = LastStrategy}} \ {NoError}
AllSettled == \A i \in Links : lk[i].pc = "settled"

\* C1 (SpecLinks): once every link task has ended, in whatever order, the
\* outcomes execute() collected and run() returns are one per URL, the i-th
\* being the outcome of the i-th input URL; in both capture modes.
C1_OutcomesInInputOrder ==
    AllSettled =>
        /\ Len(results) = Len(urls)
        /\ \A i \in Links : results[i].url = urls[i] /\ results[i] = lk[i].outcome

C1_Witness ==
    /\ parallel /\ Len(urls) >= 2 /\ runPc = "returned"
    /\ ~results[1].success /\ results[2].success

\* C2 (Spec): LinkCaptureTask.run() never raises: a link task whose variant
\* failed (or whose device profiles could not be built) has ended with a
\* failure outcome carrying its URL and folder, and run() never raises an
\* error of a variant; in both capture modes.
C2_LinkRunNeverRaises ==
    /\ runErr.kind \in {"none", "mkdir", "launch", "browserClose"}
    /\ \A i \in Links :
         /\ lk[i].pc \in {"queued", "running", "settled"}
         /\ lk[i].pc = "settled" =>
              /\ lk[i].outcome.url = urls[i]
              /\ lk[i].outcome.folder = folders[i]
              /\ lk[i].outcome.success = (lk[i].outcome.error = NoError)
         /\ (\E k \in Kinds : vt[i][k].pc = "failed") =>
              lk[i].pc = "settled" /\ ~lk[i].outcome.success

C2_Witness ==
    /\ parallel /\ runPc = "returned"
    /\ ~lk[1].outcome.success /\ lk[1].outcome.error.kind = "write"

\* C3 (Spec): once chromium.launch() has succeeded, browser.close() is
\* invoked exactly once on every exit path of run(), and never otherwise.
C3_BrowserClosedExactlyOnce ==
    /\ calls.close <= 1
    /\ runPc \in {"returned", "raised"} =>
          calls.close = IF browser # "none" THEN 1 ELSE 0

C3_Witness ==
    /\ runPc = "raised" /\ runErr.kind = "mkdir" /\ browser # "none"
    /\ calls.close = 1

\* C4 (Spec), as stated: browser.close() is invoked only when no variant
\* task is in progress (none has an unresolved call, none has a context open).
C4_BrowserClosedOnlyWhenIdle ==
    calls.close > 0 => \A i \in Links, k \in Kinds : ~InFlight(vt[i][k])

\* C5 (SpecAudit), as stated: for every context created, page.close() and
\* context.close() have each been invoked exactly once when the variant ends.
C5_EachClosedExactlyOnce ==
    \A i \in Links, k \in Kinds :
        LET v == vt[i][k] IN
        (Settled(v) /\ ContextCreated(v)) =>
            /\ Cardinality(PageCloseCalls(v)) = 1
            /\ Cardinality(ContextCloseCalls(v)) = 1

\* C5 (SpecAudit), amended: context.close() is invoked exactly once for every
\* context created.  page.close() is not invoked when no page was created;
\* with a page, the plain revision invokes it exactly once, and the logged
\* revision invokes it once after the handler returned and once more for
\* every time page.isClosed() then answers false.
C5_ClosesByOutcome ==
    \A i \in Links, k \in Kinds :
        LET v == vt[i][k] IN
        Settled(v) =>
            /\ Cardinality(ContextCloseCalls(v)) = IF ContextCreated(v) THEN 1 ELSE 0
            /\ Cardinality(PageCloseCalls(v)) =
                 IF ~PageCreated(v) THEN 0
                 ELSE IF rev = "plain" THEN 1
                 ELSE (IF HandlerCompleted(v) THEN 1 ELSE 0) + Cardinality(SaidOpen(v))

C5_Witness ==
    \E i \in Links, k \in Kinds :
        LET v == vt[i][k] IN
        /\ Settled(v) /\ ContextCreated(v) /\ ~PageCreated(v)
        /\ Cardinality(PageCloseCalls(v)) = 0
        /\ Cardinality(ContextCloseCalls(v)) = 1

\* C6 (SpecAudit): when context.close() is invoked for a context in which a
\* page was created, page.close() has been invoked before or the page has
\* reported itself closed, and no page.close() follows context.close().
C6_PageClosedBeforeContext ==
    \A i \in Links, k \in Kinds :
        LET v == vt[i][k] IN
        (PageCreated(v) /\ (v.pc = "contextClose" \/ ContextCloseCalls(v) # {})) =>
            /\ PageCloseCalls(v) # {} \/ SaidClosed(v) # {}
            /\ \A j \in PageCloseCalls(v), m \in ContextCloseCalls(v) : j < m

C6_Witness ==
    \E i \in Links, k \in Kinds :
        LET v == vt[i][k] IN
        /\ v.pc = "failed" /\ HandlerErrors(Ctx(i), v) # {}
        /\ PageCloseCalls(v) # {} /\ ContextCloseCalls(v) # {}

\* C7 (SpecAudit), as stated: when the handler threw E, the variant is
\* rejected with E and the outcome of its link carries E, whatever the
\* cleanup did.
C7_HandlerErrorSurvivesCleanup ==
    \A i \in Links, k \in Kinds :
        LET v == vt[i][k] IN
        Settled(v) =>
            \A e \in HandlerErrors(Ctx(i), v) :
                /\ v.pc = "failed" /\ v.err = e
                /\ lk[i].pc = "settled" /\ lk[i].outcome.error = ErrorMessage(e)

\* C8 (SpecAudit): the page.goto() calls of a variant follow the order of
\* NAVIGATION_STRATEGIES, each strategy at most once, the fallback only
\* after the primary attempt failed; a variant past navigation has made
\* one or two.
C8_StrategiesInOrder ==
    \A i \in Links, k \in Kinds :
        LET v == vt[i][k]
            g == Gotos(v)
        IN  /\ Len(g) <= Len(NavigationStrategies)
            /\ \A j \in 1..Len(g) : g[j].arg = NavigationStrategies[j]
            /\ \A j \in 2..Len(g) : ~AttemptSucceeded(g[j - 1].res)
            /\ (PageCreated(v) /\ v.pc # "goto") => Len(g) \in 1..2

C8_Witness ==
    \E i \in Links, k \in Kinds :
        LET v == vt[i][k] IN
        /\ v.pc = "done" /\ Len(Gotos(v)) = 2
        /\ Gotos(v)[1].res.threw

\* C9 (SpecAudit): an attempt succeeds, and navigation ends, exactly when
\* page.goto() returned with no response or a status below 400; an attempt
\* with status >= 400 is followed by what follows a thrown page.goto(): the
\* next strategy, or after the last one the failure of the variant.
C9_AttemptSucceedsIff ==
    \A i \in Links, k \in Kinds :
        LET v == vt[i][k] IN
        \A j \in CallsTo(v, {"goto"}) :
            IF AttemptSucceeded(v.log[j].res)
            THEN NextCall(v, j) \in {"idleWait", "stabilize", "content", "screenshot"}
            ELSE IF v.log[j].arg # LastStrategy
            THEN NextCall(v, j) = "goto"
            ELSE /\ NextCall(v, j) \in {"isClosed", "pageCloseFinally"}
                 /\ Settled(v) => v.pc = "failed"

C9_Witness ==
    \E i \in Links, k \in Kinds :
        LET v == vt[i][k] IN
        /\ v.pc = "failed" /\ Len(Gotos(v)) = 2
        /\ Gotos(v)[1].res = Response(400) /\ Gotos(v)[2].res = Response(404)

\* C10 (SpecAudit): when a link task has ended and the only failures of its
\* variants were primary navigation attempts, each followed by a successful
\* fallback attempt, the outcome of the link is a success without an error
\* and every variant completed.
UsedFallback(v) ==
    /\ Len(Gotos(v)) = 2
    /\ ~AttemptSucceeded(Gotos(v)[1].res) /\ AttemptSucceeded(Gotos(v)[2].res)

OnlyPrimaryFailed(v) ==
    /\ \A j \in 1..Len(v.log) : v.log[j].call # "goto" => ~v.log[j].res.threw
    /\ Len(Gotos(v)) > 0 => AttemptSucceeded(Gotos(v)[Len(Gotos(v))].res)

C10_FallbackSuccessIsSuccess ==
    \A i \in Links :
        (/\ lk[i].pc = "settled"
         /\ \A k \in Kinds : OnlyPrimaryFailed(vt[i][k])
         /\ \E k \in Kinds : UsedFallback(vt[i][k])) =>
            /\ lk[i].outcome.success /\ lk[i].outcome.error = NoError
            /\ \A k \in Kinds : vt[i][k].pc = "done"

C10_Witness ==
    \E i \in Links :
        /\ lk[i].pc = "settled" /\ lk[i].outcome.success
        /\ \A k \in Kinds : UsedFallback(vt[i][k]) /\ OnlyPrimaryFailed(vt[i][k])

\* The last page.goto() of variant v, if it made any.
FinalGoto(v) == Gotos(v)[Len(Gotos(v))]

\* C11 (SpecAudit), as stated: when the final navigation response of a
\* variant has status 404, the outcome of its link is a failure whose error
\* message contains "404" (the message of validateNavigationResponse for
\* that status).
C11_NotFoundIsReported ==
    \A i \in Links, k \in Kinds :
        LET v == vt[i][k] IN
        (/\ Settled(v) /\ Len(Gotos(v)) > 0
         /\ FinalGoto(v).arg = LastStrategy
         /\ FinalGoto(v).res = Response(404)) =>
            /\ lk[i].pc = "settled" /\ ~lk[i].outcome.success
            /\ lk[i].outcome.error = ErrorMessage(Error("http", urls[i], 404))

\* C12 (SpecAudit), as stated: when the content-readiness wait of a variant
\* timed out, the variant has failed without retrying the wait and without
\* a screenshot or an HTML file, and the outcome of its link is a failure
\* whose message names the CONTENT_READY_TIMEOUT_MS in force.
C12_ContentTimeoutIsReported ==
    \A i \in Links, k \in Kinds :
        LET v == vt[i][k] IN
        (Settled(v) /\ \E j \in CallsTo(v, {"content"}) : v.log[j].res.threw) =>
            /\ v.pc = "failed" /\ Count(v, {"content"}) = 1
            /\ v.png = 0 /\ v.html = 0
            /\ lk[i].pc = "settled" /\ ~lk[i].outcome.success
            /\ lk[i].outcome.error =
                  ErrorMessage(Error("contentNotReady", urls[i], cfg.content))

\* execute() was entered and has returned.
ExecuteReturned ==
    runPc \in {"closing", "returned", "raised"} /\ Len(folders) = Len(urls)

Failures(res) == {i \in 1..Len(res) : ~res[i].success}

C14_EveryLinkAttemptedOnce ==
    /\ \A i \in Links : calls.run[i] <= 1
    /\ \A i \in Links : (calls.run[i] = 0) = (lk[i].pc = "queued")
    /\ ExecuteReturned => \A i \in Links : calls.run[i] = 1

C14_Witness ==
    /\ ~parallel /\ runPc = "returned" /\ Len(urls) >= 2
    /\ ~results[1].success /\ calls.run[2] = 1

\* C20 (SpecLinks): with PARALLEL_CAPTURE_ENABLED false, a link is started
\* only when every link before it has its outcome; with it true, no link
\* has ended or is running while another has not been started.
C20_LinkToggle ==
    IF parallel
    THEN \A i, j \in Links : lk[i].pc # "queued" => lk[j].pc # "queued"
    ELSE \A i, j \in Links :
            (i < j /\ lk[j].pc # "queued") =>
                lk[i].pc = "settled" /\ results[i] = lk[i].outcome

C20_Witness ==
    /\ parallel /\ Len(urls) >= 2
    /\ lk[1].pc = "running" /\ lk[2].pc = "settled"

\* The artifact files present: one per link folder and file name written.
HtmlFiles == {<<i, k>> \in Links \X Kinds : vt[i][k].html > 0}
PngFiles == {<<i, k>> \in Links \X Kinds : vt[i][k].png > 0}

\* C15 (Spec): the outcome of a link is a success exactly when its three
\* variants are done; a variant that is done has written exactly one
\* screenshot and one HTML file, so a successful outcome finds 3 + 3 files
\* in its folder, and a returned run without failures 3 + 3 per URL.
C15_SuccessIffAllVariantsDone ==
    /\ \A i \in Links :
         /\ (lk[i].pc = "settled" /\ lk[i].outcome.success)
               = (\A k \in Kinds : vt[i][k].pc = "done")
         /\ \A k \in Kinds :
              /\ vt[i][k].png <= 1 /\ vt[i][k].html <= 1
              /\ vt[i][k].pc = "done" => vt[i][k].png = 1 /\ vt[i][k].html = 1
    /\ (runPc = "returned" /\ Failures(results) = {}) =>
          /\ Cardinality(HtmlFiles) = 3 * Len(urls)
          /\ Cardinality(PngFiles) = 3 * Len(urls)

C15_Witness ==
    /\ ~parallel /\ Len(urls) = 2 /\ runPc = "returned"
    /\ Failures(results) = {} /\ folders[1] # folders[2]
    /\ Cardinality(HtmlFiles) = 6 /\ Cardinality(PngFiles) = 6

\* Navigation of variant v failed under every strategy.
NavigationFailed(v) ==
    /\ Len(Gotos(v)) = Len(NavigationStrategies)
    /\ \A j \in 1..Len(Gotos(v)) : ~AttemptSucceeded(Gotos(v)[j].res)

\* C16 (SpecAudit): when the link task has ended and navigation failed under
\* both strategies for every variant that was run, no screenshot and no
\* HTML file has been written for the link, its outcome is the single
\* outcome of the run and a failure, and a returned run has a non-zero
\* exit status.
C16_NoNavigationNoArtifacts ==
    \A i \in Links :
        (/\ lk[i].pc = "settled"
         /\ \E k \in Kinds : vt[i][k].pc # "idle"
         /\ \A k \in Kinds : vt[i][k].pc # "idle" => NavigationFailed(vt[i][k])) =>
            /\ \A k \in Kinds : vt[i][k].png = 0 /\ vt[i][k].html = 0
            /\ \A k \in Kinds : Count(vt[i][k], {"screenshot", "write"}) = 0
            /\ ~lk[i].outcome.success
            /\ ExecuteReturned => results = <<lk[i].outcome>>
            /\ runPc = "returned" => exitCode # 0

C16_Witness ==
    /\ runPc = "returned" /\ exitCode = 1 /\ Len(results) = 1
    /\ NavigationFailed(vt[1]["Desktop"])
    /\ Gotos(vt[1]["Desktop"])[1].res = Threw
    /\ Gotos(vt[1]["Desktop"])[2].res = Threw

\* The name slugifyUrl builds from a base and the n-th suffix (0: none).
Suffixed(base, n) == IF n = 0 THEN base ELSE Append(base, n)

\* How many URLs before the i-th have its sanitized base.
SameBaseBefore(i) ==
    Cardinality({j \in 1..(i - 1) : Sanitized(urls[j]) = Sanitized(urls[i])})

\* C17 (SpecSlug), as stated: the folder names are pairwise distinct, and
\* the URLs with one sanitized base receive base, base-1, base-2, ... in
\* input order, whatever the other URLs are.
C17_SuffixesCountSameBase ==
    \A i \in 1..Len(folders) :
        /\ \A j \in 1..(i - 1) : folders[j] # folders[i]
        /\ folders[i] = Suffixed(Sanitized(urls[i]), SameBaseBefore(i))

\* C17 (SpecSlug), amended: the folder names are pairwise distinct; a URL
\* receives its base if no earlier URL received it, else base-k for the
\* smallest k >= 1 that no earlier URL received; this is base, base-1,
\* base-2, ... by input order among the URLs of one base unless an earlier
\* URL of another base received one of these suffixed names.
C17_SmallestFreeSuffix ==
    \A i \in 1..Len(folders) :
        LET base == Sanitized(urls[i])
            earlier == {folders[j] : j \in 1..(i - 1)}
            foreign == {folders[j] : j \in {m \in 1..(i - 1) :
                                              Sanitized(urls[m]) # base}}
        IN  /\ folders[i] \notin earlier
            /\ \E n \in 0..(i - 1) :
                 /\ folders[i] = Suffixed(base, n)
                 /\ \A m \in 0..(n - 1) : Suffixed(base, m) \in earlier
            /\ (\A n \in 0..(i - 1) : Suffixed(base, n) \notin foreign) =>
                 folders[i] = Suffixed(base, SameBaseBefore(i))

C17_Witness ==
    /\ urls = <<"a", "a/1", "a/">> /\ Len(folders) = 3
    /\ folders = <<(<<"a">>), (<<"a", 1>>), (<<"a", 2>>)>>

\* run() failed before execute(): the run folder, the launch or a link
\* directory.
SetupFailed ==
    runPc \in {"closing", "raised"} /\ Len(folders) < Len(urls)

\* C18 (Spec): when the run folder cannot be created, no browser is launched;
\* when setup fails at any point (run folder, launch, a link directory), no
\* LinkCaptureTask and no variant is ever started, no outcome is collected,
\* and run() does not return: it raises.
C18_SetupFailureIsFatal ==
    /\ (runPc = "raised" /\ runErr = Error("mkdir", "", 0)) =>
          calls.launch = 0 /\ browser = "none" /\ calls.close = 0
    /\ SetupFailed =>
          /\ results = <<>>
          /\ \A i \in Links :
               /\ lk[i].pc = "queued" /\ calls.run[i] = 0
               /\ \A k \in Kinds : vt[i][k] = Idle
    /\ runPc = "returned" => Len(folders) = Len(urls) /\ runErr = NoError
    /\ (runPc = "raised" /\ Len(folders) < Len(urls)) => runErr # NoError

C18_Witness ==
    /\ runPc = "raised" /\ Len(urls) = 2 /\ Len(folders) = 1
    /\ runErr = Error("mkdir", urls[2], 0) /\ calls.close = 1

\* C19 (SpecOutcome): every outcome made by CaptureOutcome.ok or
\* CaptureOutcome.fail, whatever was thrown (an Error, an Error with an empty
\* message, a value that is not an Error), has success true exactly when its
\* error is absent.
C19_SuccessIffNoError ==
    \A j \in 1..Len(results) :
        results[j].success = (results[j].error = NoError)

C19_Witness ==
    /\ Len(results) = 2
    /\ results[1] = Fail("a", Sanitized("a"), Text(""))
    /\ results[2] = Fail("b", Sanitized("b"), Value(""))
    /\ results[1].error = Text("") /\ ~results[1].success


(***************************************************************************)
(* C21  Variant-level toggle.  With parallelVariants false the variants of *)
(* a link run one at a time in the order Desktop, Tablet, Mobile: a        *)
(* variant has started (its context is being created, or later) only if    *)
(* every variant before it has resolved.  With parallelVariants true the   *)
(* three variants of a running link have all been started.                 *)
(***************************************************************************)
C21_VariantToggle ==
    \A i \in Links :
        IF parallel
        THEN lk[i].pc = "running" => \A k \in Kinds : vt[i][k].pc # "idle"
        ELSE \A a, b \in 1..Len(KindOrder) :
                 a < b /\ vt[i][KindOrder[b]].pc # "idle"
                     => vt[i][KindOrder[a]].pc = "done"

C21_Witness ==
    /\ \E i \in Links :
           /\ ~parallel
           /\ vt[i]["Desktop"].pc = "done" /\ vt[i]["Tablet"].pc = "done"
           /\ vt[i]["Mobile"].pc = "newContext"


\* The builds asked for kind so far.
BuildsOf(kind) == {j \in 1..Len(calls.build) : calls.build[j].kind = kind}

\* The configured name of kind is looked up in the registry and not found.
LookupFails(kind) ==
    descriptor[kind] \in {"Nokia"}

(***************************************************************************)
(* C22  For any sequence of build calls, console.warn has been called for  *)
(* a device kind exactly once if some build of that kind looked up a name  *)
(* the registry does not hold, and never otherwise (a blank name is not    *)
(* looked up); every build whose name is not found returned the fallback   *)
(* profile of its kind under the kind's overrides.                         *)
(***************************************************************************)
C22_WarnsOncePerKind ==
    /\ \A kind \in Kinds :
           calls.warn[kind] =
               IF LookupFails(kind) /\ BuildsOf(kind) # {} THEN 1 ELSE 0
    /\ \A j \in 1..Len(calls.build) :
           LET b == calls.build[j] IN
           descriptor[b.kind] \notin {"Pixel 5", " Pixel 5 "}
               => b.options = [base |-> [preset |-> "none", rest |-> b.kind],
                               overrides |-> b.kind]

C22_Witness ==
    \E kind \in Kinds :
        /\ LookupFails(kind)
        /\ Cardinality(BuildsOf(kind)) >= 2
        /\ calls.warn[kind] = 1
        /\ \E other \in Kinds \ {kind} :
               LookupFails(other) /\ BuildsOf(other) # {} /\ calls.warn[other] = 1


\* The content of a file that holds exactly the given lines, each ended.
RECURSIVE Terminated(_)
Terminated(lines) ==
    IF lines = <<>> THEN <<>>
    ELSE <<lines[1], "\n">> \o Terminated(Tail(lines))

(***************************************************************************)
(* C23  FileLogger loses and reorders no output.  Until the first          *)
(* attachTo the lines recorded are buffered, in record order, and no file  *)
(* is written; from the first attachTo on nothing is buffered and the log  *)
(* file holds every line recorded so far exactly once, in record order     *)
(* (so the buffered lines precede every line recorded later).              *)
(***************************************************************************)
C23_LoggerKeepsEveryLine ==
    IF logger.logFilePath = "null"
    THEN logger.pendingLines = logger.recorded /\ logger.file = <<>>
    ELSE logger.pendingLines = <<>> /\ logger.file = Terminated(logger.recorded)

C23_Witness ==
    /\ logger.logFilePath # "null"
    /\ logger.flushed = 2
    /\ Len(logger.recorded) = 3
    /\ logger.recorded[1] # logger.recorded[2]


\* The links file is missing, holds no entry, or holds an entry that is no URL.
Unusable(file) ==
    \/ ~file.exists
    \/ \A j \in 1..Len(file.lines) : file.lines[j] \in {"", "  "}
    \/ \E j \in 1..Len(file.lines) : file.lines[j] = "not a url"

(***************************************************************************)
(* C24  Link-source failure aborts the whole run.  Once main() is past     *)
(* loadUrlsFromFile with a links file that is missing, empty or holds an   *)
(* entry that is no URL, the process has exited with status 1: no URL list *)
(* was returned, no runner and no link task exist, no run folder was       *)
(* announced, no link folder made, and no browser was launched.            *)
(***************************************************************************)
C24_LinkSourceFailureAborts ==
    runPc # "main" /\ Unusable(linksFile)
        => /\ runPc = "exited"
           /\ exitCode = 1
           /\ urls = <<>> /\ lk = <<>> /\ vt = <<>>
           /\ calls.notify = 0 /\ calls.launch = 0 /\ browser = "none"
           /\ folders = <<>> /\ usedNames = {}

C24_Witness ==
    /\ runPc = "exited"
    /\ linksFile.exists
    /\ \E j, m \in 1..Len(linksFile.lines) :
           linksFile.lines[j] = "not a url" /\ linksFile.lines[m] \in {"a", " a ", "b.example"}


(***************************************************************************)
(* C25  Concurrent runs do not collide: whatever their start times, two    *)
(* runs against the same output root that have prepared their run folders  *)
(* have distinct run folders.                                              *)
(***************************************************************************)
C25_RunFoldersDistinct ==
    \A r1, r2 \in RunIds :
        r1 # r2 /\ runs.folder[r1] # <<>> /\ runs.folder[r2] # <<>>
            => runs.folder[r1] # runs.folder[r2]


\* The variants whose browsing context is open: browser.newContext() has
\* returned and context.close() has not.
OpenContexts ==
    {ik \in Links \X Kinds :
        vt[ik[1]][ik[2]].pc \in PlaywrightCalls \ {"newContext"}}

(***************************************************************************)
(* C26  With PARALLEL_CAPTURE_ENABLED true and N URLs at most 3*N browsing *)
(* contexts are open at once, and nothing holds a context back: once       *)
(* execute() has started no link task is queued and no variant of a        *)
(* running link waits to be started.  (The state with 3*N contexts open is *)
(* C26_Witness.)                                                           *)
(***************************************************************************)
C26_ContextsUpTo3N ==
    parallel =>
        /\ Cardinality(OpenContexts) <= 3 * Len(urls)
        /\ runPc = "executing" => \A i \in Links : lk[i].pc # "queued"
        /\ \A i \in Links :
               lk[i].pc = "running" => \A k \in Kinds : vt[i][k].pc # "idle"

C26_Witness ==
    /\ parallel
    /\ Len(urls) = MaxUrls
    /\ Cardinality(OpenContexts) = 3 * Len(urls)


\* Capture work has started: a LinkCaptureTask.run() has been called or a
\* variant has left its initial state.
CaptureStarted ==
    \E i \in Links : lk[i].pc # "queued" \/ \E k \in Kinds : vt[i][k].pc # "idle"

(***************************************************************************)
(* C27  Slug assignment and directory creation complete before any capture *)
(* work starts.  Whenever a link task has been started or a variant has    *)
(* asked for its context, every URL has its link directory, and the used   *)
(* names are exactly the names of these directories: none was added since. *)
(***************************************************************************)
C27_PreparationBeforeCapture ==
    CaptureStarted =>
        /\ Len(folders) = Len(urls)
        /\ usedNames = {folders[j] : j \in 1..Len(folders)}
        /\ Cardinality(usedNames) = Len(urls)

C27_Witness ==
    /\ Len(urls) = 2
    /\ lk[1].pc = "settled"
    /\ vt[2]["Desktop"].pc = "newPage"
    /\ Cardinality(usedNames) = 2


\* A step of the capture phase: execute() is running, or this step calls
\* the first LinkCaptureTask.run().
CapturePhaseStep ==
    \/ runPc = "executing"
    \/ runPc = "preparing" /\ calls'.run # calls.run

(***************************************************************************)
(* C28 as stated: from the start of the first LinkCaptureTask.run() to the *)
(* resolution of the last, no state shared between tasks is written:       *)
(* neither the used names, nor the link directories, nor the flags of the  *)
(* shared DeviceContextFactory.                                            *)
(***************************************************************************)
C28_NoSharedWrites ==
    [][CapturePhaseStep => UNCHANGED <<usedNames, folders, factory>>]_vars

(***************************************************************************)
(* C28 amended: during the capture phase the used names and the link       *)
(* directories are not written; the factory's warning flags are written    *)
(* only in a step that calls a LinkCaptureTask.run() (createVariantTasks,  *)
(* before its first await), a flag only from unset to set, only for a kind *)
(* whose descriptor is looked up and not found, with its one warning.      *)
(***************************************************************************)
C28_SharedWritesOnlyAtRunStart ==
    [][CapturePhaseStep =>
          /\ UNCHANGED <<usedNames, folders>>
          /\ factory' # factory => calls'.run # calls.run
          /\ \A k \in Kinds :
                 factory'[k] # factory[k] =>
                     /\ ~factory[k] /\ factory'[k]
                     /\ LookupFails(k)
                     /\ calls.warn[k] = 0 /\ calls'.warn[k] = 1]_vars

C28_Witness ==
    /\ parallel
    /\ \A i \in Links : lk[i].pc = "running" /\ calls.run[i] = 1
    /\ Len(urls) >= 2
    /\ factory["Desktop"] /\ calls.warn["Desktop"] = 1
    /\ ~factory["Tablet"] /\ ~factory["Mobile"]


\* Variant v has issued the call: it is suspended at it or has it in its audit.
Issued(v, call) == v.pc = call \/ CallsTo(v, {call}) # {}

(***************************************************************************)
(* C29  A configured value <= 0 disables the corresponding wait: with      *)
(* POST_NAVIGATION_IDLE_MS <= 0 no variant issues the post-navigation      *)
(* timed wait, with CAPTURE_STABILIZATION_DELAY_MS <= 0 none issues the    *)
(* stabilization wait, and with CONTENT_READY_TIMEOUT_MS <= 0 none         *)
(* evaluates the readiness predicate.                                      *)
(***************************************************************************)
C29_DisabledWaitsAreSkipped ==
    \A i \in Links, k \in Kinds :
        /\ cfg.idle <= 0 => ~Issued(vt[i][k], "idleWait")
        /\ cfg.stab <= 0 => ~Issued(vt[i][k], "stabilize")
        /\ cfg.content <= 0 => ~Issued(vt[i][k], "content")


\* The capture steps of a variant task, in the order of the claim.
StepOrder ==
    <<"newContext", "newPage", "goto", "idleWait", "stabilize", "content",
      "screenshot", "pageContent", "write">>

\* The place of a call in StepOrder; 0 for the calls that are not capture
\* steps (page.isClosed(), page.close(), context.close()).
StepRank ==
    [call \in PlaywrightCalls \cup {"write", "isClosed"} |->
        IF \E s \in 1..Len(StepOrder) : StepOrder[s] = call
        THEN CHOOSE s \in 1..Len(StepOrder) : StepOrder[s] = call
        ELSE 0]

IsStep(call) == StepRank[call] > 0

\* The calls variant v has made, the pending one last.
CallsMade(v) ==
    IF InFlight(v)
    THEN [j \in 1..(Len(v.log) + 1) |->
              IF j <= Len(v.log) THEN v.log[j].call ELSE v.pc]
    ELSE [j \in 1..Len(v.log) |-> v.log[j].call]

\* A step that is not disabled by the configuration.
StepRequired ==
    [s \in 1..Len(StepOrder) |->
        CASE StepOrder[s] = "idleWait" -> cfg.idle > 0
          [] StepOrder[s] = "stabilize" -> cfg.stab > 0
          [] StepOrder[s] = "content" -> cfg.content > 0
          [] OTHER -> TRUE]

EntrySucceeded(en) ==
    IF en.call = "goto" THEN AttemptSucceeded(en.res) ELSE ~en.res.threw

(***************************************************************************)
(* C30  Within one variant task the capture steps occur only in the order  *)
(* context created, page created, navigation, idle wait, stabilization     *)
(* wait, content readiness, screenshot, page content, HTML written.  The   *)
(* steps a variant has made begin with the context and follow this order   *)
(* (navigation alone may repeat, for its fallback); between two            *)
(* consecutive steps only disabled steps are left out; and no step is made *)
(* after a call that failed (other than a navigation attempt followed by   *)
(* another attempt).  Hence a screenshot is never taken after a failed     *)
(* navigation or after a timed-out content-readiness wait.                 *)
(***************************************************************************)
C30_StepsInOrder ==
    \A i \in Links, k \in Kinds :
        LET v == vt[i][k]
            made == CallsMade(v)
            steps == SelectSeq(made, IsStep)
            failed == {j \in 1..Len(v.log) :
                          /\ ~EntrySucceeded(v.log[j])
                          /\ ~(v.log[j].call = "goto" /\ made[j + 1] = "goto")}
        IN
        /\ steps # <<>> => steps[1] = "newContext"
        /\ \A j \in 1..(Len(steps) - 1) :
               /\ StepRank[steps[j]] <= StepRank[steps[j + 1]]
               /\ StepRank[steps[j]] = StepRank[steps[j + 1]] => steps[j] = "goto"
               /\ \A s \in (StepRank[steps[j]] + 1)..(StepRank[steps[j + 1]] - 1) :
                      ~StepRequired[s]
        /\ \A j \in failed : \A m \in (j + 1)..Len(made) : ~IsStep(made[m])
        /\ Issued(v, "screenshot") =>
               /\ Len(Gotos(v)) > 0 /\ AttemptSucceeded(FinalGoto(v).res)
               /\ \A j \in CallsTo(v, {"content"}) : ~v.log[j].res.threw

C30_Witness ==
    \E i \in Links :
        LET v == vt[i]["Desktop"] IN
        /\ cfg.idle > 0 /\ cfg.stab > 0 /\ cfg.content > 0
        /\ v.pc = "done"
        /\ Count(v, {"goto"}) = 2
        /\ \A s \in 1..Len(StepOrder) : CallsTo(v, {StepOrder[s]}) # {}
        /\ \E k \in Kinds :
               /\ CallsTo(vt[i][k], {"content"}) # {}
               /\ \A j \in CallsTo(vt[i][k], {"content"}) : vt[i][k].log[j].res.threw
               /\ vt[i][k].pc = "failed" /\ vt[i][k].png = 0


\* The four-step reference: ready if the body has text; else not ready
\* without a matching element; else ready if the element has text; else
\* ready iff its rectangle has a width and a height.
ReferenceReady(d) ==
    /\ d.body
    /\ \/ TrimmedText(d.bodyText) # ""
       \/ /\ d.element # "none"
          /\ \/ d.element = "html" /\ TrimmedText(d.elementText) # ""
             \/ d.width > 0 /\ d.height > 0

(***************************************************************************)
(* C31  The content-readiness predicate equals the four-step reference in  *)
(* every document, and never raises: once evaluated, its answer is "ready" *)
(* exactly when the reference says so, and "notReady" otherwise.           *)
(***************************************************************************)
C31_PredicateIsReference ==
    dom.answer # "pending" => dom.answer = Answer(ReferenceReady(dom))


\* The registry has the trimmed name.
PresetFound == Trimmed(device.descriptorName) \in Devices

\* Where a field of the base profile comes from.
BaseOrigin(key) ==
    IF PresetFound /\ key \in DOMAIN device.preset THEN "preset" ELSE "fallback"

(***************************************************************************)
(* C32  The profile buildDeviceProfile returns: each of the six profile    *)
(* fields comes from the preset when the preset is found and has the       *)
(* field, and from the fallback otherwise (always when the name is blank   *)
(* or unknown); locale, timezoneId and colorScheme are the overrides';     *)
(* viewport and screen are the overrides' only when the overrides have     *)
(* them.                                                                   *)
(***************************************************************************)
C32_ProfileFieldByField ==
    device # <<>> /\ device.result # <<>> =>
        LET result == device.result[1] IN
        /\ \A key \in ProfileFields \ {"viewport", "screen"} :
              Get(result, key) = BaseOrigin(key)
        /\ \A key \in {"viewport", "screen"} :
              Get(result, key) = IF key \in DOMAIN device.overrides
                                 THEN "override" ELSE BaseOrigin(key)
        /\ \A key \in OverrideFields : Get(result, key) = "override"

\* A found preset with a viewport but no screen, overrides with a viewport
\* only: the viewport is the overrides', the screen the fallback's, the
\* user agent the preset's.
C32_Witness ==
    /\ device # <<>> /\ device.result # <<>>
    /\ PresetFound
    /\ DOMAIN device.preset = {"viewport", "userAgent", "defaultBrowserType"}
    /\ "viewport" \in DOMAIN device.overrides
    /\ "screen" \notin DOMAIN device.overrides
    /\ Get(device.result[1], "viewport") = "override"
    /\ Get(device.result[1], "screen") = "fallback"
    /\ Get(device.result[1], "userAgent") = "preset"
    /\ Get(device.result[1], "isMobile") = "fallback"


\* The launch options have the flag.
HasFlag(options, flag) == \E n \in DOMAIN options : options[n].flag = flag

\* At least one configured item is not blank.
SomeNonBlank(list) == \E n \in DOMAIN list : TrimmedItem(list[n]) # ""

(***************************************************************************)
(* C33  A run launches the browser engine at most once, and exactly once   *)
(* before any of its contexts is asked for, so that every context is the   *)
(* one engine's; the options of the launch carry --host-resolver-rules=    *)
(* iff a non-blank resolver rule is configured and --dns-server= iff       *)
(* CHROMIUM_USE_CUSTOM_DNS is true and a non-blank DNS server is           *)
(* configured.                                                             *)
(***************************************************************************)
C33_OneEngineWithConfiguredFlags ==
    /\ calls.launch <= 1
    /\ Len(chromium.launched) = calls.launch
    /\ browser # "none" => calls.launch = 1
    /\ \A i \in Links, k \in Kinds :
          vt[i][k] # Idle => calls.launch = 1 /\ browser # "none"
    /\ \A n \in DOMAIN chromium.launched :
          /\ HasFlag(chromium.launched[n], "--host-resolver-rules=")
                <=> SomeNonBlank(chromium.rules)
          /\ HasFlag(chromium.launched[n], "--dns-server=")
                <=> chromium.useCustomDns /\ SomeNonBlank(chromium.servers)

\* A finished run whose engine was launched with the DNS flag alone, three
\* contexts having been derived from it.
C33_Witness ==
    /\ runPc = "returned"
    /\ calls.launch = 1
    /\ chromium.rules = <<>> /\ chromium.useCustomDns
    /\ chromium.launched = <<(<<[flag |-> "--dns-server=", value |-> DefaultChromium.servers]>>)>>
    /\ \A k \in Kinds : vt[1][k] # Idle


(***************************************************************************)
(* C34  With sequential variants, a variant is started only after every    *)
(* variant before it (Desktop, Tablet, Mobile) is done; once a variant has *)
(* failed the variants after it are never started - no context, no         *)
(* artifact, no call at all - and the link's outcome is the failure with   *)
(* the error of that variant, the first and only failed one.               *)
(***************************************************************************)
C34_SequentialStopsAtFirstFailure ==
    ~parallel =>
        \A i \in Links :
            /\ \A a, b \in 1..Len(KindOrder) :
                  a < b =>
                     /\ vt[i][KindOrder[b]] # Idle => vt[i][KindOrder[a]].pc = "done"
                     /\ vt[i][KindOrder[a]].pc = "failed" => vt[i][KindOrder[b]] = Idle
            /\ \A k \in Kinds :
                  vt[i][k].pc = "failed" =>
                     /\ lk[i].pc = "settled"
                     /\ lk[i].outcome = Fail(urls[i], folders[i], vt[i][k].err)
                     /\ vt[i][k].err # NoError

\* Desktop done, Tablet failed, Mobile never started, and the outcome has
\* Tablet's error.
C34_Witness ==
    /\ ~parallel
    /\ vt[1]["Desktop"].pc = "done"
    /\ vt[1]["Tablet"].pc = "failed"
    /\ vt[1]["Mobile"] = Idle
    /\ lk[1].outcome.error = ErrorMessage(vt[1]["Tablet"].err)
    /\ runPc = "returned"


\* The closes of page and context.
Closes == {"pageClose", "pageCloseFinally", "contextClose"}

\* The handler of variant v returned the page content.
HandlerSucceeded(v) ==
    \E n \in CallsTo(v, {"pageContent"}) : ~v.log[n].res.threw

\* A close of the page or the context of variant v threw.
CloseFailed(v) == \E n \in CallsTo(v, Closes) : v.log[n].res.threw

(***************************************************************************)
(* C35  The HTML file of a variant is written only after its screenshot    *)
(* was written and its page and its context were closed, no close having   *)
(* thrown; so page.<variant>.html exists only if page.<variant>.png does.  *)
(* A variant whose handler returned and one of whose closes threw has its  *)
(* screenshot, never gets an HTML file, and ends failed.                   *)
(***************************************************************************)
C35_HtmlAfterCleanCloses ==
    \A i \in Links, k \in Kinds :
        LET v == vt[i][k] IN
        /\ v.html > 0 => v.png > 0
        /\ v.pc = "write" \/ v.html > 0 =>
              /\ \E n \in CallsTo(v, {"screenshot"}) : ~v.log[n].res.threw
              /\ \E n \in CallsTo(v, {"pageClose", "pageCloseFinally"}) :
                    ~v.log[n].res.threw
              /\ \E n \in CallsTo(v, {"contextClose"}) : ~v.log[n].res.threw
              /\ ~CloseFailed(v)
        /\ HandlerSucceeded(v) /\ CloseFailed(v) =>
              /\ v.png = 1 /\ v.html = 0
              /\ v.pc \notin {"write", "done"}
              /\ v.err # NoError
              /\ Settled(v) => v.pc = "failed"

\* A variant that took its screenshot and read the page content, whose
\* context then failed to close: failed, with the PNG and without the HTML.
C35_Witness ==
    \E k \in Kinds :
        /\ vt[1][k].pc = "failed"
        /\ HandlerSucceeded(vt[1][k])
        /\ \E n \in CallsTo(vt[1][k], {"contextClose"}) : vt[1][k].log[n].res.threw
        /\ \A n \in CallsTo(vt[1][k], {"pageClose", "pageCloseFinally"}) :
              ~vt[1][k].log[n].res.threw
        /\ vt[1][k].png = 1 /\ vt[1][k].html = 0
        /\ ~lk[1].outcome.success /\ lk[1].pc = "settled"


\* The variants whose page is open: created and not yet closed.
OpenPages ==
    {ik \in Links \X Kinds :
        vt[ik[1]][ik[2]].pc \in PlaywrightCalls \ {"newContext", "newPage", "contextClose"}}

(***************************************************************************)
(* C36  With PARALLEL_CAPTURE_ENABLED false at most one variant of the     *)
(* whole run is in flight at any time, so at most one browsing context and *)
(* at most one page are open, across all links and variants.               *)
(***************************************************************************)
C36_OneContextAtATime ==
    ~parallel =>
        /\ Cardinality({ik \in Links \X Kinds : InFlight(vt[ik[1]][ik[2]])}) <= 1
        /\ Cardinality(OpenContexts) <= 1
        /\ Cardinality(OpenPages) <= 1
        /\ OpenPages \subseteq OpenContexts

\* The second link's Tablet variant has its context and page open, after
\* four variants have opened and closed theirs.
C36_Witness ==
    /\ ~parallel
    /\ Len(urls) = 2
    /\ lk[1].pc = "settled" /\ lk[1].outcome.success
    /\ vt[2]["Desktop"].pc = "done"
    /\ vt[2]["Tablet"].pc = "screenshot"
    /\ OpenContexts = {<<2, "Tablet">>}
    /\ OpenPages = {<<2, "Tablet">>}


\* What the two attempts of the navigation raised.
PrimaryError == AttemptError(urls[1], nav.attempts[1])
FallbackError == AttemptError(urls[1], nav.attempts[2])

(***************************************************************************)
(* C37  When both navigation strategies have failed, navigateWithFallback  *)
(* raises the error of the last attempt (domcontentloaded), not that of    *)
(* the primary attempt; when that last error is not an Error instance it   *)
(* raises a new Error 'Navigation failed for <url>.' instead.              *)
(***************************************************************************)
C37_LastStrategyErrorSurfaces ==
    nav # <<>> /\ nav.v.pc # "goto"
               /\ PrimaryError # NoError /\ FallbackError # NoError =>
        /\ nav.v.err = IF FallbackError.kind = "value"
                       THEN Error("navigation", urls[1], 0)
                       ELSE FallbackError
        /\ PrimaryError # FallbackError => nav.v.err # PrimaryError

\* The primary attempt threw an Error, the fallback attempt threw a value
\* that is no Error: the generic error is raised.
C37_Witness ==
    /\ nav # <<>> /\ nav.v.pc # "goto"
    /\ PrimaryError = Error("goto", urls[1], 1)
    /\ FallbackError.kind = "value"
    /\ nav.v.err = Error("navigation", urls[1], 0)


(***************************************************************************)
(* C38  Once the outcome of a link has been produced - and so once run()   *)
(* has returned - none of the link's variants is still at work: none has a *)
(* context open, none has a call outstanding that may yet write a          *)
(* screenshot or an HTML file into the link's folder.                      *)
(***************************************************************************)
C38_NothingLeftAfterOutcome ==
    \A i \in Links :
        lk[i].pc = "settled" \/ runPc = "returned" =>
            \A k \in Kinds : ~InFlight(vt[i][k]) /\ <<i, k>> \notin OpenContexts


\* run() has returned or raised.
RunEnded == runPc \in {"returned", "raised"}

\* The call that never completes has been made.
HungCallMade ==
    /\ hung # <<>>
    /\ CASE hung.call = "launch" -> runPc = "launching"
         [] hung.call = "browserClose" -> runPc = "closing"
         [] OTHER -> vt[hung.link][hung.kind].pc = hung.call

\* When every call resolves, run() ends, and the browser it launched has
\* been closed - browser.close() was called once and has resolved.
RunEndsWhenEveryCallResolves ==
    hung = <<>> => <>[](RunEnded /\ (browser # "none" => calls.close = 1))

(***************************************************************************)
(* C39  There is no run-level deadline: once the one call that never       *)
(* completes has been made, its variant stays where it is, its link has no *)
(* outcome and run() does not end.  (With every call resolving run() ends, *)
(* browser closed: RunEndsWhenEveryCallResolves.)                          *)
(***************************************************************************)
C39_HungCallBlocksRun ==
    HungCallMade =>
        /\ ~RunEnded
        /\ hung.link \in Links => lk[hung.link].pc = "running"


\* The run folder of this run exists.
RunFolderCreated == runs.folder # <<>> /\ runs.folder[1] \in runs.dirs

(***************************************************************************)
(* C40  run() notifies the run-folder observers exactly once, after its    *)
(* run folder was created and before it launches the browser, and not at   *)
(* all when the folder could not be created; and the FileLogger, once      *)
(* attached, keeps its log file whatever folder a later attachTo names.    *)
(***************************************************************************)
C40_ObserversNotifiedOnce ==
    /\ [](/\ calls.notify <= 1
          /\ calls.notify = 1 <=> RunFolderCreated
          /\ calls.notify = 1 <=> runPc \in {"folderReady", "launching"}
          /\ calls.launch > 0 => calls.notify = 1
          /\ runPc = "raised" => calls.notify = 0 /\ calls.launch = 0
          /\ calls.notify = 1 => logger.logFilePath # "null")
    /\ [][logger.logFilePath # "null" => logger'.logFilePath = logger.logFilePath]_vars

\* The observers have been notified of the created run folder and the
\* browser is not launched yet; the logger stays attached to a folder it
\* was given before, not to the folder of this run.
C40_Witness ==
    /\ runPc = "folderReady"
    /\ calls.notify = 1 /\ calls.launch = 0
    /\ RunFolderCreated
    /\ logger.logFilePath = "r2" /\ runs.folder = <<"r1">>

=============================================================================
